---------------------------- MODULE Spec2Model ----------------------------
(***************************************************************************)
(* A model of the PCF2 attribution game of FBPCS                           *)
(* (fbpcs/emp_games/pcf2_attribution): the input constructor               *)
(* AttributionInputMetrics (parse, sort, pad, row/batch layout), the       *)
(* ad-id compression, the rule negotiation shareAttributionRules, the      *)
(* threshold sharing and the reverse double loop of                        *)
(* computeAttributionsHelper / computeAttributionsHelperV2, driven by      *)
(* computeAttributions.                                                    *)
(*                                                                         *)
(* Secret-shared values are modelled by the plaintext they reconstruct to. *)
(* A secret value is a "lane vector": a sequence with one entry per user   *)
(* row of the batch; the row-wise build (usingBatch = false) holds scalars,*)
(* modelled as lane vectors of length 1.  Every SecBit / SecTimestamp /    *)
(* SecAdId operation of the engine acts lane by lane.                      *)
(*                                                                         *)
(* The optional columns target_id / action_type and the touchpoint's local *)
(* id are not read by any modelled operation; records leave them out, but  *)
(* the vectors the batch conversion sizes for them keep their sizes.       *)
(*                                                                         *)
(* The module also holds a model of the provisioning server's              *)
(* DeployController (cloud_bridge): its request handlers, stepped per      *)
(* request thread, its provisioning lock and the runners it starts, and a  *)
(* model of the Lift calculator's InputData reading its CSV file.          *)
(***************************************************************************)
EXTENDS Integers, Sequences, FiniteSets, TLC

(***************************************************************************)
(* Bounds of the model                                                     *)
(***************************************************************************)
\* largest --max_num_touchpoints a run is configured with
MaxTouchpoints == 2
\* largest --max_num_conversions a run is configured with
MaxConversions == 2
\* most user rows (CSV lines) of a multi-row input shard
MaxRows == 2
\* most rule names the publisher configures
MaxRuleNames == 2
\* request threads the provisioning server handles at once
MaxRequestThreads == 2
\* most runners the provisioning server constructs in one behaviour
MaxRunners == 2
\* most data lines of a Lift input file
MaxLiftRows == 2
\* largest integer a flag column of a Lift input file holds
MaxFlagValue == 2
\* Width in bits of the compressed ad id counter.  The source declares it
\* uint16_t (16 bits) and bounds the number of ad ids by 65536 = 2^16; the
\* model keeps that relation at a width TLC can enumerate.
CompressedAdIdBits == 2

(***************************************************************************)
(* Program constants                                                       *)
(***************************************************************************)
\* const size_t attributionRuleIdWidth = 3
attributionRuleIdWidth == 3

\* CHECK_LE(adIdSet.size(), 65536): 65536 = 2^16, the range of the uint16_t
\* counter, at the model's counter width
MaxNumAdIds == 2 ^ CompressedAdIdBits

(***************************************************************************)
(* Generic helpers                                                         *)
(***************************************************************************)
SeqsUpTo(S, n) == UNION {[1..k -> S] : k \in 0..n}

Reverse(s) == [i \in 1..Len(s) |-> s[Len(s) + 1 - i]]

Range(s) == {s[i] : i \in 1..Len(s)}

RECURSIVE Flatten(_)
Flatten(ss) == IF ss = <<>> THEN <<>> ELSE Head(ss) \o Flatten(Tail(ss))

\* the sequences whose i-th entry is drawn from the i-th set
RECURSIVE Product(_)
Product(sets) ==
    IF sets = <<>> THEN {<<>>}
    ELSE {<<h>> \o t : h \in Head(sets), t \in Product(Tail(sets))}

\* n times the operation op
Repeat(op, n) == [i \in 1..n |-> op]

\* a lane vector of n copies of v
Lanes(n, v) == [l \in 1..n |-> v]


(***************************************************************************)
(* RuleCatalog: SUPPORTED_ATTRIBUTION_RULES and the rule functions.        *)
(* AttributionRule.h / AttributionRule_impl.h of pcf2_attribution are not  *)
(* among the sources; the definitions of this section follow the           *)
(* specification: a rule is (id, name, window, click policy), the          *)
(* threshold of a touchpoint is its timestamp plus the window (branching   *)
(* on click vs. view), and a padding touchpoint is never attributable.     *)
(* Timestamps and windows are counted in days.                             *)
(***************************************************************************)
StandardCatalog ==
    << [id |-> 1, name |-> "last_click_1d",   window |-> 1, clickOnly |-> TRUE],
       [id |-> 2, name |-> "last_touch_1d",   window |-> 1, clickOnly |-> FALSE],
       [id |-> 3, name |-> "last_click_2_7d", window |-> 7, clickOnly |-> TRUE],
       [id |-> 4, name |-> "last_touch_2_7d", window |-> 7, clickOnly |-> FALSE] >>

\* variant: a name that matches no entry resolves to the first rule
RulesNamedOrFirst(catalog, name) ==
    {i \in 1..Len(catalog) :
        catalog[i].name = name
        \/ (i = 1 /\ \A j \in 1..Len(catalog) : catalog[j].name # name)}

\* AttributionRule::fromNameOrThrow: the catalog entries a name matches
\* (none: the lookup throws)
RulesNamed(catalog, name) == {i \in 1..Len(catalog) : catalog[i].name = name}

fromNameOrThrow(catalog, name) ==
    catalog[CHOOSE i \in RulesNamed(catalog, name) :
                \A j \in RulesNamed(catalog, name) : i <= j]

\* AttributionRule::fromIdOrThrow: the catalog entries an id matches
RulesWithId(catalog, id) == {i \in 1..Len(catalog) : catalog[i].id = id}

fromIdOrThrow(catalog, id) ==
    catalog[CHOOSE i \in RulesWithId(catalog, id) :
                \A j \in RulesWithId(catalog, id) : i <= j]

\* computeThresholdsPlaintext / computeThresholdsPrivate for one lane: the
\* upper end of the window of a touchpoint the rule can attribute, 0 for a
\* touchpoint it cannot (padding, or a view under a click-only rule)
\* variant: timestamp 0 is given a window like any other timestamp
ThresholdOfAnyTimestamp(rule, ts, isClick) ==
    IF rule.clickOnly /\ ~isClick THEN 0 ELSE ts + rule.window

\* variant: a click-only rule gives views a window too
ThresholdOfAnyTouch(rule, ts, isClick) ==
    IF ts > 0 THEN ts + rule.window ELSE 0

Threshold(rule, ts, isClick) ==
    IF ts > 0 /\ (rule.clickOnly => isClick) THEN ts + rule.window ELSE 0

\* the thresholds of one touchpoint: a vector holding one lane vector
computeThresholds(rule, tp) ==
    << [l \in 1..Len(tp.ts) |-> Threshold(rule, tp.ts[l], tp.isClick[l])] >>

\* rule.isAttributable(tp, conv, thresholds), lane by lane: the touchpoint
\* precedes the conversion and the conversion is inside the window
isAttributable(tp, conv, thresholds) ==
    [l \in 1..Len(tp.ts) |->
        tp.ts[l] < conv.ts[l] /\ conv.ts[l] <= thresholds[1][l]]

(***************************************************************************)
(* csv::splitByComma(str, false)                                           *)
(***************************************************************************)
\* The flag's text is modelled by its comma-separated fields (blanks
\* removed).  split consumes "([^,]+),?" while it matches at the front of
\* the rest: it takes non-empty fields and stops at the first empty one.
RECURSIVE splitByComma(_)
splitByComma(fields) ==
    IF fields = <<>> \/ Head(fields) = "" THEN <<>>
    ELSE <<Head(fields)>> \o splitByComma(Tail(fields))

(***************************************************************************)
(* AttributionInputMetrics: parsing one CSV line                           *)
(***************************************************************************)
\* a value-initialised ParsedTouchpoint / ParsedConversion (vector::resize)
PaddingTouchpoint ==
    [isClick |-> FALSE, ts |-> 0, originalAdId |-> 0, adId |-> 0]

PaddingConversion == [ts |-> 0, convValue |-> 0]

\* variant: no resize
PadToOwnLength(s, n, pad) == s

\* tps.resize(FLAGS_max_num_touchpoints) / convs.resize(...) when shorter
PadTo(s, n, pad) ==
    IF Len(s) < n THEN s \o [i \in 1..(n - Len(s)) |-> pad] ELSE s

\* ParsedTouchpoint::operator< (Touchpoint.h is not among the sources; from
\* the specification: ascending timestamp, views before clicks when equal)
TouchpointLess(a, b) ==
    \/ a.ts < b.ts
    \/ a.ts = b.ts /\ ~a.isClick /\ b.isClick

\* ParsedConversion::operator<: ascending timestamp
ConversionLess(a, b) == a.ts < b.ts

\* what std::sort may leave: any arrangement with no inversion
Arrangements(s) == {[i \in 1..Len(s) |-> s[f[i]]] : f \in Permutations(1..Len(s))}

SortedTouchpoints(s) ==
    {t \in Arrangements(s) :
        \A i, j \in 1..Len(t) : i < j => ~TouchpointLess(t[j], t[i])}

SortedConversions(s) ==
    {t \in Arrangements(s) :
        \A i, j \in 1..Len(t) : i < j => ~ConversionLess(t[j], t[i])}

\* the CHECK_LE of parseTouchpoints / parseConversions
parseTouchpointsChecks(cfg, rawTps) == Len(rawTps) <= cfg.maxTouchpoints

parseConversionsChecks(cfg, rawConvs) == Len(rawConvs) <= cfg.maxConversions

\* variant of parseTouchpoints without the std::sort
parseTouchpointsNoSort(cfg, rawTps) ==
    LET tps == [i \in 1..Len(rawTps) |->
                   [isClick |-> rawTps[i].isClick, ts |-> rawTps[i].ts,
                    originalAdId |-> rawTps[i].originalAdId, adId |-> 0]]
    IN  {PadTo(tps, cfg.maxTouchpoints, PaddingTouchpoint)}

\* parseTouchpoints: build, sort (unless the input is XOR-shared), pad
parseTouchpoints(cfg, rawTps) ==
    LET tps == [i \in 1..Len(rawTps) |->
                   [isClick |-> rawTps[i].isClick, ts |-> rawTps[i].ts,
                    originalAdId |-> rawTps[i].originalAdId, adId |-> 0]]
        sorted == IF cfg.inputEncryption # "Xor"
                  THEN SortedTouchpoints(tps)
                  ELSE {tps}
    IN  {PadTo(t, cfg.maxTouchpoints, PaddingTouchpoint) : t \in sorted}

\* parseConversions: build, sort (plaintext input only), pad
parseConversions(cfg, rawConvs) ==
    LET sorted == IF cfg.inputEncryption = "Plaintext"
                  THEN SortedConversions(rawConvs)
                  ELSE {rawConvs}
    IN  {PadTo(c, cfg.maxConversions, PaddingConversion) : c \in sorted}

(***************************************************************************)
(* AttributionInputMetrics: row-wise and batched layout                    *)
(***************************************************************************)
\* convertParsedTouchpointsToTouchpoints.  Row-wise: one vector of scalar
\* touchpoints per row.  Batched: max_num_touchpoints columns, each field
\* holding one entry per row.
convertParsedTouchpointsToTouchpoints(cfg, parsed) ==
    IF cfg.usingBatch
    THEN [j \in 1..cfg.maxTouchpoints |->
            [isClick      |-> [i \in 1..Len(parsed) |-> parsed[i][j].isClick],
             ts           |-> [i \in 1..Len(parsed) |-> parsed[i][j].ts],
             originalAdId |-> [i \in 1..Len(parsed) |-> parsed[i][j].originalAdId],
             adId         |-> [i \in 1..Len(parsed) |-> parsed[i][j].adId]]]
    ELSE [i \in 1..Len(parsed) |->
            [j \in 1..Len(parsed[i]) |->
                [isClick      |-> <<parsed[i][j].isClick>>,
                 ts           |-> <<parsed[i][j].ts>>,
                 originalAdId |-> <<parsed[i][j].originalAdId>>,
                 adId         |-> <<parsed[i][j].adId>>]]]

\* Batched convertParsedConversionsToConversions sizes `timestamps` by
\* max_num_conversions and `targetIds`, `actionTypes`, `values` by
\* max_num_touchpoints; every .at(j) beyond a vector's size throws
\* std::out_of_range.
conversionTimestampsSize(cfg) == cfg.maxConversions

conversionValuesSize(cfg) == cfg.maxTouchpoints

convertParsedConversionsThrows(cfg, parsed) ==
    /\ cfg.usingBatch
    /\ \/ \E i \in 1..Len(parsed) : \E j \in 1..Len(parsed[i]) :
            j > conversionTimestampsSize(cfg) \/ j > conversionValuesSize(cfg)
       \/ \E i \in 1..conversionTimestampsSize(cfg) : i > conversionValuesSize(cfg)

convertParsedConversionsToConversions(cfg, parsed) ==
    IF cfg.usingBatch
    THEN [j \in 1..conversionTimestampsSize(cfg) |->
            [ts        |-> [i \in 1..Len(parsed) |-> parsed[i][j].ts],
             convValue |-> [i \in 1..Len(parsed) |-> parsed[i][j].convValue]]]
    ELSE [i \in 1..Len(parsed) |->
            [j \in 1..Len(parsed[i]) |->
                [ts        |-> <<parsed[i][j].ts>>,
                 convValue |-> <<parsed[i][j].convValue>>]]]

(***************************************************************************)
(* AdIdCompressor                                                          *)
(***************************************************************************)
\* every touchpoint of the input, whatever the layout: the rows' scalar
\* touchpoints (row-wise) or the columns (batched)
TouchpointList(cfg, tps) == IF cfg.usingBatch THEN tps ELSE Flatten(tps)

\* retrieveValidOriginalAdIds: the set of non-zero original ad ids
adIdSet(cfg, tps) ==
    UNION {Range(tp.originalAdId) : tp \in Range(TouchpointList(cfg, tps))} \ {0}

\* CHECK_LE(adIdSet.size(), 65536)
adIdCountCheck(idSet) == Cardinality(idSet) <= MaxNumAdIds

\* std::sort of the set's elements
RECURSIVE SortAscending(_)
SortAscending(S) ==
    IF S = {} THEN <<>>
    ELSE LET m == CHOOSE x \in S : \A y \in S : x <= y
         IN  <<m>> \o SortAscending(S \ {m})

\* lines 233-236: the elements of the std::unordered_set are copied to a
\* vector in the set's iteration order, which is unspecified
adIdSetIterations(idSet) == Arrangements(SortAscending(idSet))

\* variant: the vector is returned in the set's iteration order
UnsortedAdIds(order) == order

\* std::sort(validOriginalAdIds.begin(), validOriginalAdIds.end())
SortedAdIds(order) == SortAscending(Range(order))

\* variant: the opened value reaches both parties
openToAll(me, party, value, myShare, keepsShare) == value

\* secAdId.openToParty(party).getValue(): the receiving party gets the
\* value; the other party gets a placeholder that carries nothing of the
\* value (zero, or what it already held)
openToParty(me, party, value, myShare, keepsShare) ==
    IF me = party THEN value
    ELSE IF keepsShare THEN myShare ELSE 0

\* lines 189-227 at the partner: what its touchpoints' originalAdId hold
\* after the loop, given the values being opened
partnerOriginalAdIds(c, file, values, keepsShare) ==
    IF c.inputEncryption = "Xor"
    THEN [i \in 1..Len(file) |-> [j \in 1..Len(file[i]) |->
            openToParty("PARTNER", "PUBLISHER", values[i][j].originalAdId,
                        file[i][j], keepsShare)]]
    ELSE file

\* lines 189-227: with XOR-shared input one open per touchpoint
openOps(c, tps) ==
    IF c.inputEncryption = "Xor" THEN Repeat("open", Len(TouchpointList(c, tps))) ELSE <<>>

\* privatelyShareTouchpoints and privatelyShareConversions: one private
\* value per element of the arrays
shareOps(c, tps, convs) ==
    Repeat("share", Len(TouchpointList(c, tps)) + Len(TouchpointList(c, convs)))

\* every vector the function may return
retrieveValidOriginalAdIds(cfg, tps) ==
    {SortedAdIds(order) : order \in adIdSetIterations(adIdSet(cfg, tps))}

\* uint16_t compressedAdId = 1; ... compressedAdId++ : the counter's value
\* when the k-th valid ad id is handled (unsigned wrap-around)
compressedAdIdAt(k) == k % (2 ^ CompressedAdIdBits)

\* std::to_string of an unsigned integer
Digit(d) == <<"0", "1", "2", "3", "4", "5", "6", "7", "8", "9">>[d + 1]

RECURSIVE to_string(_)
to_string(n) == IF n < 10 THEN Digit(n) ELSE to_string(n \div 10) \o Digit(n % 10)

\* variant: the keys of the mapping count from 0
compressedAdIdToAdIdMapFromZero(validOriginalAdIds) ==
    [key \in {to_string(k - 1) : k \in 1..Len(validOriginalAdIds)} |->
        validOriginalAdIds[CHOOSE k \in 1..Len(validOriginalAdIds) :
                              to_string(k - 1) = key]]

\* computeAttributions, lines 553-559: map[to_string(compressedAdId)] =
\* originalAdId for every valid ad id in turn (a later write to the same
\* key replaces the earlier one)
compressedAdIdToAdIdMap(validOriginalAdIds) ==
    LET n == Len(validOriginalAdIds)
        keys == {to_string(compressedAdIdAt(k)) : k \in 1..n}
    IN  [key \in keys |->
            validOriginalAdIds[CHOOSE k \in 1..n :
                /\ to_string(compressedAdIdAt(k)) = key
                /\ \A k2 \in 1..n :
                      to_string(compressedAdIdAt(k2)) = key => k2 <= k]]

\* replaceAdIdWithCompressedAdId, lines 249-255: adIdToCompressedAdIdMap
\* (insert keeps the first entry of a key)
adIdToCompressedAdIdMap(validOriginalAdIds) ==
    [id \in Range(validOriginalAdIds) |->
        compressedAdIdAt(CHOOSE k \in 1..Len(validOriginalAdIds) :
            /\ validOriginalAdIds[k] = id
            /\ \A k2 \in 1..Len(validOriginalAdIds) :
                  validOriginalAdIds[k2] = id => k <= k2)]

\* lines 257-276: the rewrite of one touchpoint.  Batched: a fresh adIds
\* vector, 0 for original ad id 0.  Row-wise: adId is assigned only when the
\* original ad id is non-zero.
replaceOne(cfg, tp, map) ==
    [tp EXCEPT !.adId =
        [l \in 1..Len(tp.originalAdId) |->
            IF tp.originalAdId[l] > 0 THEN map[tp.originalAdId[l]]
            ELSE IF cfg.usingBatch THEN 0 ELSE tp.adId[l]]]

replaceAdIdWithCompressedAdId(cfg, tps, validOriginalAdIds) ==
    LET map == adIdToCompressedAdIdMap(validOriginalAdIds)
    IN  IF cfg.usingBatch
        THEN [j \in 1..Len(tps) |-> replaceOne(cfg, tps[j], map)]
        ELSE [i \in 1..Len(tps) |->
                [j \in 1..Len(tps[i]) |-> replaceOne(cfg, tps[i][j], map)]]

(***************************************************************************)
(* Lane-wise oblivious operations (SecBit, SecAdId)                        *)
(***************************************************************************)
BitAnd(a, b) == [l \in 1..Len(a) |-> a[l] /\ b[l]]
BitOr(a, b)  == [l \in 1..Len(a) |-> a[l] \/ b[l]]
BitNot(a)    == [l \in 1..Len(a) |-> ~a[l]]
\* variant: the other value is taken whatever the choice bit is
MuxOfOtherAlways(self, choice, other) == other

\* self.mux(choice, other): other where choice holds, self elsewhere
Mux(self, choice, other) ==
    [l \in 1..Len(self) |-> IF choice[l] THEN other[l] ELSE self[l]]

(***************************************************************************)
(* State                                                                   *)
(***************************************************************************)
VARIABLES
    cfg,                \* the flags of the run and the rule catalog of the build
    rawRows,            \* the CSV lines: per user row, its touchpoints and conversions
    attributionRules_,  \* AttributionInputMetrics::attributionRules_ (publisher)
    ids,                \* AttributionInputMetrics::ids_
    parsedTouchpoints,  \* constructor local: the parsed, padded rows
    parsedConversions,  \* constructor local
    tpArrays_,          \* AttributionInputMetrics::tpArrays_
    convArrays_,        \* AttributionInputMetrics::convArrays_
    touchpoints,        \* computeAttributions: the local copy of the touchpoints
    compressionMapping, \* the file compressionMapping.json: whether written, and its map
    partner,            \* the partner process: its touchpoints' originalAdId and its mapping file
    tpArrays,           \* the privately shared touchpoints
    convArrays,         \* the privately shared conversions
    attributionRules,   \* what shareAttributionRules returns, per role
    ruleIndex,          \* position of the `for attributionRule` loop
    thresholdArrays,    \* privatelyShareThresholds' result for the current rule
    helper,             \* the locals of the running computeAttributionsHelper(V2) call
    attributions,       \* computeAttributions: attributions / attributionsReformatted
    attributionMetrics, \* computeAttributions: formatToAttribution
    out,                \* computeAttributions: out.ruleToMetrics
    ops,                \* the oblivious operations issued so far, per role
    previous,           \* what an earlier run of the same process image returned and wrote
    pc,                 \* where the run is
    err                 \* "none", or the error that ended the run

\* DeployController
VARIABLES
    singleProvisioningLock, \* the permits of the Semaphore(1)
    deploymentRunner,       \* the field: an index into runners, 0 for null
    installationRunner,     \* the field: an index into runners, 0 for null
    runners,                \* every runner constructed so far
    monitor,                \* the thread inside synchronized (this), 0 for none
    requests                \* per request thread: handler, position, locals, last APIReturn

controllerVars == << singleProvisioningLock, deploymentRunner, installationRunner,
                     runners, monitor, requests >>

\* Lift InputData
VARIABLES
    liftFile,           \* the CSV file: its header and its data lines
    numRows_,           \* InputData::numRows_
    testPopulation_,    \* InputData::testPopulation_
    controlPopulation_  \* InputData::controlPopulation_

liftVars == << liftFile, numRows_, testPopulation_, controlPopulation_ >>

\* what an attribution run leaves alone
otherVars == << controllerVars, liftVars >>

attributionVars == << cfg, rawRows, attributionRules_, ids, parsedTouchpoints, parsedConversions, tpArrays_,
           convArrays_, touchpoints, compressionMapping, partner, tpArrays, convArrays,
           attributionRules, ruleIndex, thresholdArrays, helper, attributions,
           attributionMetrics, out, ops, previous, pc, err >>

vars == << attributionVars, controllerVars, liftVars >>

inputVars == << cfg, rawRows, previous >>
constructorVars == << attributionRules_, ids, parsedTouchpoints, parsedConversions, tpArrays_, convArrays_ >>
sharedVars == << touchpoints, compressionMapping, partner, tpArrays, convArrays, attributionRules >>
ruleLoopVars == << ruleIndex, thresholdArrays, helper, attributions, attributionMetrics, out >>

numIds == Len(ids)

\* a request thread with no request, and the server after start-up
NoReturn == [status |-> "none", message |-> "none"]

IdleRequest == [handler |-> "none", pc |-> "idle", state |-> "none", ret |-> NoReturn]

ControllerIdle ==
    /\ singleProvisioningLock = 1
    /\ deploymentRunner = 0
    /\ installationRunner = 0
    /\ runners = <<>>
    /\ monitor = 0
    /\ requests = [t \in 1..MaxRequestThreads |-> IdleRequest]

\* an InputData that has read an empty file
NoLiftInput ==
    /\ liftFile = [header |-> <<>>, lines |-> <<>>]
    /\ numRows_ = 0
    /\ testPopulation_ = <<>>
    /\ controlPopulation_ = <<>>

\* opsStart: how many operations had been issued when the call began
IdleHelper ==
    [row |-> 0, ci |-> 0, ti |-> 0, hasAttributedTouchpoint |-> <<>>,
     attributedAdId |-> <<>>, attributions |-> <<>>, opsStart |-> 0]

NoOps == [publisher |-> <<>>, partner |-> <<>>]

\* the two roles go on, each issuing its own operations
Issue(publisherOps, partnerOps) ==
    ops' = [publisher |-> ops.publisher \o publisherOps,
            partner |-> ops.partner \o partnerOps]

Both(roleOps) == Issue(roleOps, roleOps)

NoPrevious == [ran |-> FALSE, out |-> <<>>, mapping |-> <<>>]

\* the state the two processes start in, for a given configuration, the
\* publisher's input file and the originalAdId values the partner's own
\* input holds for the touchpoints of each row
StartWith(c, rows, partnerAdIds) ==
    /\ cfg = c
    /\ rawRows = rows
    /\ previous = NoPrevious
    /\ ops = NoOps
    /\ partner = [file |-> partnerAdIds, originalAdId |-> partnerAdIds,
                  mapping |-> [written |-> FALSE, map |-> <<>>]]
    /\ attributionRules_ = <<>>
    /\ ids = <<>>
    /\ parsedTouchpoints = <<>>
    /\ parsedConversions = <<>>
    /\ tpArrays_ = <<>>
    /\ convArrays_ = <<>>
    /\ touchpoints = <<>>
    /\ compressionMapping = [written |-> FALSE, map |-> <<>>]
    /\ tpArrays = <<>>
    /\ convArrays = <<>>
    /\ attributionRules = [publisher |-> <<>>, partner |-> <<>>]
    /\ ruleIndex = 0
    /\ thresholdArrays = <<>>
    /\ helper = IdleHelper
    /\ attributions = <<>>
    /\ attributionMetrics = <<>>
    /\ out = <<>>
    /\ pc = "construct"
    /\ err = "none"
    /\ ControllerIdle
    /\ NoLiftInput

\* a partner whose input holds no ad id
Start(c, rows) ==
    StartWith(c, rows, [i \in 1..Len(rows) |-> [j \in 1..c.maxTouchpoints |-> 0]])

Fail(e) == pc' = "error" /\ err' = e

(***************************************************************************)
(* AttributionInputMetrics constructor                                     *)
(***************************************************************************)
\* lines 356-359: the publisher splits its rule flag; then readCsv with the
\* per-line lambda parses every line; a failed CHECK aborts the process
ReadCsv ==
    /\ pc = "construct"
    /\ attributionRules_' = splitByComma(cfg.attributionRulesStr)
    /\ IF \E i \in 1..Len(rawRows) :
            \/ ~parseTouchpointsChecks(cfg, rawRows[i].tps)
            \/ ~parseConversionsChecks(cfg, rawRows[i].convs)
       THEN /\ Fail("check_num_events")
            /\ UNCHANGED << ids, parsedTouchpoints, parsedConversions,
                            tpArrays_, convArrays_ >>
       ELSE /\ ids' = [i \in 1..Len(rawRows) |-> i - 1]
            /\ \E pt \in Product([i \in 1..Len(rawRows) |->
                                      parseTouchpoints(cfg, rawRows[i].tps)]) :
                  parsedTouchpoints' = pt
            /\ \E pv \in Product([i \in 1..Len(rawRows) |->
                                      parseConversions(cfg, rawRows[i].convs)]) :
                  parsedConversions' = pv
            /\ UNCHANGED << tpArrays_, convArrays_ >>
            /\ pc' = "convert"
            /\ err' = "none"
    /\ UNCHANGED << otherVars, inputVars, sharedVars, ruleLoopVars, ops >>

\* lines 388-389: lay the parsed rows out row-wise or in batches
ConvertParsed ==
    /\ pc = "convert"
    /\ IF convertParsedConversionsThrows(cfg, parsedConversions)
       THEN /\ Fail("out_of_range")
            /\ tpArrays_' = convertParsedTouchpointsToTouchpoints(cfg, parsedTouchpoints)
            /\ UNCHANGED convArrays_
       ELSE /\ tpArrays_' = convertParsedTouchpointsToTouchpoints(cfg, parsedTouchpoints)
            /\ convArrays_' = convertParsedConversionsToConversions(cfg, parsedConversions)
            /\ pc' = "compress"
            /\ err' = "none"
    /\ UNCHANGED << otherVars, inputVars, attributionRules_, ids, parsedTouchpoints,
                    parsedConversions, sharedVars, ruleLoopVars, ops >>

(***************************************************************************)
(* computeAttributions                                                     *)
(***************************************************************************)
\* lines 547-566: copy the touchpoints and, with the new output format,
\* compress the ad ids and write the mapping file
CompressAdIds ==
    /\ pc = "compress"
    /\ IF cfg.useNewOutputFormat
       THEN \E keepsShare \in BOOLEAN :
            LET held == partnerOriginalAdIds(cfg, partner.file, parsedTouchpoints, keepsShare)
                partnerIdSet == Range(Flatten(held)) \ {0}
            IN
            IF ~adIdCountCheck(adIdSet(cfg, tpArrays_)) \/ ~adIdCountCheck(partnerIdSet)
            THEN /\ Fail("check_num_ad_ids")
                 /\ touchpoints' = tpArrays_
                 /\ UNCHANGED << compressionMapping, partner >>
                 \* the opens precede the CHECK_LE; a role whose own
                 \* check passes goes on to lines 568-571
                 /\ Issue(openOps(cfg, tpArrays_) \o
                             (IF adIdCountCheck(adIdSet(cfg, tpArrays_))
                              THEN shareOps(cfg, tpArrays_, convArrays_) ELSE <<>>),
                          openOps(cfg, tpArrays_) \o
                             (IF adIdCountCheck(partnerIdSet)
                              THEN shareOps(cfg, tpArrays_, convArrays_) ELSE <<>>))
            ELSE \E validOriginalAdIds \in retrieveValidOriginalAdIds(cfg, tpArrays_) :
                     /\ compressionMapping' =
                          [written |-> TRUE,
                           map |-> compressedAdIdToAdIdMap(validOriginalAdIds)]
                     /\ partner' =
                          [partner EXCEPT
                             !.originalAdId = held,
                             !.mapping =
                                [written |-> TRUE,
                                 map |-> compressedAdIdToAdIdMap(
                                            SortAscending(partnerIdSet))]]
                     /\ touchpoints' =
                          replaceAdIdWithCompressedAdId(cfg, tpArrays_, validOriginalAdIds)
                     /\ Both(openOps(cfg, tpArrays_))
                     /\ pc' = "share"
                     /\ err' = "none"
       ELSE /\ touchpoints' = tpArrays_
            /\ UNCHANGED << compressionMapping, partner, ops >>
            /\ pc' = "share"
            /\ err' = "none"
    /\ UNCHANGED << otherVars, inputVars, constructorVars, tpArrays, convArrays,
                    attributionRules, ruleLoopVars >>

\* the private copy of a touchpoint / conversion: the fields the engine reads
PrivateTouchpoint(tp) == [ts |-> tp.ts, isClick |-> tp.isClick, adId |-> tp.adId]

privatelyShareTouchpoints(c, tps) ==
    IF c.usingBatch
    THEN [j \in 1..Len(tps) |-> PrivateTouchpoint(tps[j])]
    ELSE [i \in 1..Len(tps) |-> [j \in 1..Len(tps[i]) |-> PrivateTouchpoint(tps[i][j])]]

privatelyShareConversions(c, convs) == convs

\* lines 568-571
PrivatelyShare ==
    /\ pc = "share"
    /\ tpArrays' = privatelyShareTouchpoints(cfg, touchpoints)
    /\ convArrays' = privatelyShareConversions(cfg, convArrays_)
    /\ Both(shareOps(cfg, touchpoints, convArrays_))
    /\ pc' = "rules"
    /\ UNCHANGED << otherVars, inputVars, constructorVars, touchpoints, compressionMapping, partner,
                    attributionRules, ruleLoopVars, err >>

(***************************************************************************)
(* RuleNegotiator: shareAttributionRules                                   *)
(***************************************************************************)
\* privatelyShareIntArrayFrom<schedulerId, width, PUBLISHER, PARTNER>: what
\* a value shared in `width` bits opens to
SharedInt(width, v) == v % (2 ^ width)

\* variant: the ids are shared in one bit less
RuleIdWidthOfTwoBits == attributionRuleIdWidth - 1

RuleIdWidth == attributionRuleIdWidth

\* lines 146-154: the publisher resolves its rule names
publisherRules(catalog, names) ==
    [i \in 1..Len(names) |-> fromNameOrThrow(catalog, names[i])]

\* lines 163-167: the ids as the partner receives them
sharedAttributionRuleIds(rules) ==
    [i \in 1..Len(rules) |-> SharedInt(RuleIdWidth, rules[i].id)]

\* lines 169-175: the partner rebuilds the rules from the ids
partnerRules(catalog, sharedIds) ==
    [i \in 1..Len(sharedIds) |-> fromIdOrThrow(catalog, sharedIds[i])]

\* variant: only the publisher takes part in sharing the ids
RuleShareOpsOfPublisherOnly(role) == IF role = "PUBLISHER" THEN <<"share">> ELSE <<>>

\* lines 163-167: privatelyShareIntArrayFrom is called on both roles
RuleShareOps(role) == <<"share">>

\* lines 95-99: the batched XOR build refuses batch size 0
privatelyShareThresholdsThrows(c, batchSize) ==
    c.inputEncryption = "Xor" /\ c.usingBatch /\ batchSize = 0

\* privatelyShareThresholds: a shared threshold vector per touchpoint; with
\* XOR-shared input the click bits are shared first and the thresholds are
\* computed on the shares
thresholdOps(c, tps) ==
    IF c.inputEncryption = "Xor"
    THEN Repeat("share", Len(TouchpointList(c, tps))) \o
         Repeat("gate", Len(TouchpointList(c, tps)))
    ELSE Repeat("share", Len(TouchpointList(c, tps)))

ShareAttributionRules ==
    /\ pc = "rules"
    /\ IF \E i \in 1..Len(attributionRules_) :
             RulesNamed(cfg.catalog, attributionRules_[i]) = {}
       THEN /\ Fail("unknown_rule")
            /\ UNCHANGED << attributionRules, ruleIndex >>
            \* the publisher has thrown; the partner is at line 163
            /\ Issue(<<>>, RuleShareOps("PARTNER"))
       ELSE IF ~(Len(cfg.catalog) < 2 ^ RuleIdWidth)
       THEN /\ Fail("check_catalog_size")
            /\ UNCHANGED << attributionRules, ruleIndex, ops >>
       ELSE LET pub == publisherRules(cfg.catalog, attributionRules_)
                sharedIds == sharedAttributionRuleIds(pub)
            IN  IF \E i \in 1..Len(sharedIds) : RulesWithId(cfg.catalog, sharedIds[i]) = {}
                THEN /\ Fail("invalid_rule_id")
                     /\ UNCHANGED << attributionRules, ruleIndex >>
                     \* the partner has thrown; the publisher is in the
                     \* first rule's privatelyShareThresholds
                     /\ Issue(RuleShareOps("PUBLISHER") \o
                                 (IF privatelyShareThresholdsThrows(cfg, numIds)
                                  THEN <<>> ELSE thresholdOps(cfg, touchpoints)),
                              RuleShareOps("PARTNER"))
                ELSE /\ attributionRules' =
                          [publisher |-> pub,
                           partner |-> partnerRules(cfg.catalog, sharedIds)]
                     /\ Issue(RuleShareOps("PUBLISHER"), RuleShareOps("PARTNER"))
                     /\ ruleIndex' = 1
                     /\ pc' = "rule"
                     /\ err' = "none"
    /\ UNCHANGED << otherVars, inputVars, constructorVars, touchpoints, compressionMapping, partner,
                    tpArrays, convArrays, thresholdArrays, helper, attributions,
                    attributionMetrics, out >>

(***************************************************************************)
(* ThresholdComputer: privatelyShareThresholds                             *)
(***************************************************************************)
\* one threshold vector per touchpoint, in the layout of the touchpoints
privatelyShareThresholds(c, tps, rule) ==
    IF c.usingBatch
    THEN [j \in 1..Len(tps) |-> computeThresholds(rule, tps[j])]
    ELSE [i \in 1..Len(tps) |-> [j \in 1..Len(tps[i]) |-> computeThresholds(rule, tps[i][j])]]

\* variant: every iteration works on the first rule of the list
FirstRule == attributionRules.publisher[1]

\* the rule of the current iteration of `for (attributionRule : attributionRules)`
CurrentRule == attributionRules.publisher[ruleIndex]

\* lines 584-591, or the loop's end and `return out`
RuleBegin ==
    /\ pc = "rule"
    /\ IF ruleIndex > Len(attributionRules.publisher)
       THEN /\ pc' = "done"
            /\ err' = "none"
            /\ UNCHANGED << thresholdArrays, helper, attributions, ops >>
       ELSE IF privatelyShareThresholdsThrows(cfg, numIds)
       THEN /\ Fail("invalid_argument")
            /\ UNCHANGED << thresholdArrays, helper, attributions, ops >>
       ELSE LET th == privatelyShareThresholds(cfg, touchpoints, CurrentRule)
            IN  IF Len(th) # Len(tpArrays)
                THEN /\ Fail("check_thresholds_size")
                     /\ Both(thresholdOps(cfg, touchpoints))
                     /\ UNCHANGED << thresholdArrays, helper, attributions >>
                ELSE /\ thresholdArrays' = th
                     /\ Both(thresholdOps(cfg, touchpoints))
                     /\ attributions' = <<>>
                     /\ helper' = [IdleHelper EXCEPT !.row = 1]
                     /\ pc' = "call"
                     /\ err' = "none"
    /\ UNCHANGED << otherVars, inputVars, constructorVars, sharedVars, ruleIndex,
                    attributionMetrics, out >>

(***************************************************************************)
(* AttributionEngine: computeAttributionsHelper / computeAttributionsHelperV2 *)
(***************************************************************************)
\* the arguments of the running helper call: the whole arrays of a batched
\* build, row helper.row of a row-wise build
HelperTouchpoints == IF cfg.usingBatch THEN tpArrays ELSE tpArrays[helper.row]
HelperConversions == IF cfg.usingBatch THEN convArrays ELSE convArrays[helper.row]
HelperThresholds == IF cfg.usingBatch THEN thresholdArrays ELSE thresholdArrays[helper.row]

\* the number of lanes of the helper's secret values
HelperLanes == IF cfg.usingBatch THEN numIds ELSE 1

\* computeAttributions, lines 597-613 / 632-646: the next helper call (one
\* call for a batch, one per row otherwise), or on to the reveal.  Lines
\* 309-314 / 422-427: a batched helper refuses batch size 0.
HelperCall ==
    /\ pc = "call"
    /\ IF helper.row > (IF cfg.usingBatch THEN 1 ELSE numIds)
       THEN /\ pc' = "reveal"
            /\ err' = "none"
            /\ UNCHANGED helper
       ELSE IF cfg.usingBatch /\ numIds = 0
       THEN /\ Fail("invalid_argument")
            /\ UNCHANGED helper
       ELSE /\ helper' = [IdleHelper EXCEPT !.row = helper.row,
                                            !.ci = Len(HelperConversions),
                                            !.opsStart = Len(ops.publisher)]
            /\ pc' = "outer"
            /\ err' = "none"
    /\ UNCHANGED << otherVars, inputVars, constructorVars, sharedVars, ruleIndex,
                    thresholdArrays, attributions, attributionMetrics, out, ops >>

\* lines 343-350 / 456-463: hasAttributedTouchpoint is a private value
\* of the publisher; V2, lines 468-478: so is attributedAdId
conversionOps(c) == IF c.useNewOutputFormat THEN <<"share", "share">> ELSE <<"share">>

\* lines 372-377 / 493-501, V2 line 520: the operations of one pass of
\* the touchpoint loop
touchpointOps(c) ==
    IF c.useNewOutputFormat
    THEN <<"isAttributable", "not", "and", "or", "mux">>
    ELSE <<"isAttributable", "not", "and", "or">>

\* variant of the loop's step: leave the loop once every lane is attributed
nextTouchpointIndexOrExit(ti, hasAttributedTouchpoint) ==
    IF \A l \in 1..Len(hasAttributedTouchpoint) : hasAttributedTouchpoint[l]
    THEN 0 ELSE ti - 1

\* `for (size_t i = touchpoints.size(); i >= 1; --i)`
nextTouchpointIndex(ti, hasAttributedTouchpoint) == ti - 1

\* The head of the conversion loop (lines 325-353 / 439-478): with no
\* conversion left, reverse and return; otherwise set up the conversion's
\* state and check the thresholds' length.
HelperOuter ==
    /\ pc = "outer"
    /\ IF helper.ci = 0
       THEN /\ attributions' =
                 IF cfg.usingBatch THEN Reverse(helper.attributions)
                 ELSE Append(attributions, Reverse(helper.attributions))
            /\ helper' = [IdleHelper EXCEPT !.row = helper.row + 1]
            /\ pc' = "call"
            /\ err' = "none"
            /\ UNCHANGED ops
       ELSE IF Len(HelperTouchpoints) # Len(HelperThresholds)
       THEN /\ Fail("check_thresholds_size")
            \* hasAttributedTouchpoint is set up before the CHECK_EQ
            /\ Both(<<"share">>)
            /\ UNCHANGED << helper, attributions >>
       ELSE /\ helper' = [helper EXCEPT
                            !.hasAttributedTouchpoint = Lanes(HelperLanes, FALSE),
                            !.attributedAdId = Lanes(HelperLanes, 0),
                            !.ti = Len(HelperTouchpoints)]
            /\ Both(conversionOps(cfg))
            /\ pc' = "inner"
            /\ err' = "none"
            /\ UNCHANGED attributions
    /\ UNCHANGED << otherVars, inputVars, constructorVars, sharedVars, ruleIndex,
                    thresholdArrays, attributionMetrics, out >>

\* variant: without the !hasAttributedTouchpoint factor
isAttributedOfUnsuppressed(isTouchpointAttributable, hasAttributedTouchpoint) ==
    isTouchpointAttributable

\* lines 375 / 499
isAttributedOf(isTouchpointAttributable, hasAttributedTouchpoint) ==
    BitAnd(isTouchpointAttributable, BitNot(hasAttributedTouchpoint))

\* variant: the flag of the touchpoint just seen replaces the running flag
hasAttributedOfThisTouchpoint(isAttributed, hasAttributedTouchpoint) == isAttributed

\* lines 377 / 501
hasAttributedAfter(isAttributed, hasAttributedTouchpoint) ==
    BitOr(isAttributed, hasAttributedTouchpoint)

\* One pass of the touchpoint loop (lines 355-398 / 479-522), or, with no
\* touchpoint left, the end of the conversion's iteration (V2: lines
\* 523-527 push the conversion's record).
HelperInner ==
    /\ pc = "inner"
    /\ IF helper.ti >= 1
       THEN LET tp == HelperTouchpoints[helper.ti]
                threshold == HelperThresholds[helper.ti]
                conv == HelperConversions[helper.ci]
                isTouchpointAttributable == isAttributable(tp, conv, threshold)
                isAttributed ==
                    isAttributedOf(isTouchpointAttributable, helper.hasAttributedTouchpoint)
                hasAttributedTouchpoint ==
                    hasAttributedAfter(isAttributed, helper.hasAttributedTouchpoint)
            IN  /\ helper' = [helper EXCEPT
                     !.hasAttributedTouchpoint = hasAttributedTouchpoint,
                     !.attributedAdId =
                         IF cfg.useNewOutputFormat
                         THEN Mux(helper.attributedAdId, isAttributed, tp.adId)
                         ELSE helper.attributedAdId,
                     !.attributions =
                         IF cfg.useNewOutputFormat THEN helper.attributions
                         ELSE Append(helper.attributions, isAttributed),
                     !.ti = nextTouchpointIndex(helper.ti, hasAttributedTouchpoint)]
                /\ Both(touchpointOps(cfg))
                /\ pc' = "inner"
       ELSE /\ helper' = [helper EXCEPT
                 !.attributions =
                     IF cfg.useNewOutputFormat
                     THEN Append(helper.attributions,
                                 [ad_id |-> helper.attributedAdId,
                                  conv_value |-> HelperConversions[helper.ci].convValue,
                                  is_attributed |-> helper.hasAttributedTouchpoint])
                     ELSE helper.attributions,
                 !.ci = helper.ci - 1]
            /\ UNCHANGED ops
            /\ pc' = "outer"
    /\ UNCHANGED << otherVars, inputVars, constructorVars, sharedVars, ruleIndex,
                    thresholdArrays, attributions, attributionMetrics, out, err >>

(***************************************************************************)
(* OutputReducer                                                           *)
(***************************************************************************)
\* lines 614-622 / 648-657: reveal the rule's result and file it under the
\* format name "default" and the rule's name
StoreMetrics ==
    /\ pc = "reveal"
    /\ LET metrics == [default |-> attributions]
           name == CurrentRule.name
       IN  /\ attributionMetrics' = metrics
           /\ out' = [n \in DOMAIN out \cup {name} |->
                        IF n = name THEN metrics ELSE out[n]]
    /\ Both(<<"reveal">>)
    /\ ruleIndex' = ruleIndex + 1
    /\ pc' = "rule"
    /\ UNCHANGED << otherVars, inputVars, constructorVars, sharedVars, thresholdArrays,
                    helper, attributions, err >>

Next ==
    \/ ReadCsv
    \/ ConvertParsed
    \/ CompressAdIds
    \/ PrivatelyShare
    \/ ShareAttributionRules
    \/ RuleBegin
    \/ HelperCall
    \/ HelperOuter
    \/ HelperInner
    \/ StoreMetrics

\* The same computation is started once more on the same flags and the
\* same input file: a new process with fresh objects, while the file system
\* still holds what the first run wrote
Rerun ==
    /\ pc = "done"
    /\ ~previous.ran
    /\ previous' = [ran |-> TRUE, out |-> out, mapping |-> compressionMapping]
    /\ attributionRules_' = <<>>
    /\ ids' = <<>>
    /\ parsedTouchpoints' = <<>>
    /\ parsedConversions' = <<>>
    /\ tpArrays_' = <<>>
    /\ convArrays_' = <<>>
    /\ touchpoints' = <<>>
    /\ tpArrays' = <<>>
    /\ convArrays' = <<>>
    /\ attributionRules' = [publisher |-> <<>>, partner |-> <<>>]
    /\ ruleIndex' = 0
    /\ thresholdArrays' = <<>>
    /\ helper' = IdleHelper
    /\ attributions' = <<>>
    /\ attributionMetrics' = <<>>
    /\ out' = <<>>
    /\ ops' = NoOps
    /\ pc' = "construct"
    /\ err' = "none"
    /\ UNCHANGED << otherVars, cfg, rawRows, compressionMapping, partner >>

NextRerun == Next \/ Rerun

\* The binary is started once more on the same input files and flags, now
\* with --use_new_output_format; the first run's output is kept for
\* comparison.
RerunInNewFormat ==
    /\ pc = "done"
    /\ ~previous.ran
    /\ ~cfg.useNewOutputFormat
    /\ previous' = [ran |-> TRUE, out |-> out, mapping |-> compressionMapping]
    /\ cfg' = [cfg EXCEPT !.useNewOutputFormat = TRUE]
    /\ attributionRules_' = <<>>
    /\ ids' = <<>>
    /\ parsedTouchpoints' = <<>>
    /\ parsedConversions' = <<>>
    /\ tpArrays_' = <<>>
    /\ convArrays_' = <<>>
    /\ touchpoints' = <<>>
    /\ tpArrays' = <<>>
    /\ convArrays' = <<>>
    /\ attributionRules' = [publisher |-> <<>>, partner |-> <<>>]
    /\ ruleIndex' = 0
    /\ thresholdArrays' = <<>>
    /\ helper' = IdleHelper
    /\ attributions' = <<>>
    /\ attributionMetrics' = <<>>
    /\ out' = <<>>
    /\ ops' = NoOps
    /\ pc' = "construct"
    /\ err' = "none"
    /\ UNCHANGED << otherVars, rawRows, compressionMapping, partner >>

NextFormats == Next \/ RerunInNewFormat

\* a helper call on its own: from the call to its return or its failure
NextHelper == HelperCall \/ HelperOuter \/ HelperInner

\* the valid original ad ids of the shard another engine instance of the
\* same process works on
OtherShardAdIds == {<<>>, <<99>>}

\* Lines 553-562 in another instance: it builds the mapping of its own
\* shard and writes it to FLAGS_output_base_path + "compressionMapping.json",
\* the path every instance of the process computes from the same flag
OtherInstanceWritesMapping ==
    /\ cfg.useNewOutputFormat
    /\ pc \notin {"done", "error"}
    /\ \E validOriginalAdIds \in OtherShardAdIds :
          compressionMapping' =
              [written |-> TRUE, map |-> compressedAdIdToAdIdMap(validOriginalAdIds)]
    /\ UNCHANGED << otherVars, inputVars, constructorVars, touchpoints, partner, tpArrays,
                    convArrays, attributionRules, ruleLoopVars, ops, pc, err >>

NextConcurrent == Next \/ OtherInstanceWritesMapping

(***************************************************************************)
(* DeployController                                                        *)
(*                                                                         *)
(* One step per shared access of a request handler.  DeploymentRunner and  *)
(* InstallationRunner are used through what the controller calls: the      *)
(* constructor (which may throw), start(), the state getter with           *)
(* STATE_HALTED, and the callback the controller hands over, which the     *)
(* runner runs once when it has halted.                                    *)
(***************************************************************************)
Threads == 1..MaxRequestThreads

\* true for the deployment handlers, false for the installation handlers
OfDeployment(handler) == handler \in {"runDeployment", "deploymentStatus"}

\* the field a handler reads and writes
StoredRunner(handler) ==
    IF OfDeployment(handler) THEN deploymentRunner ELSE installationRunner

StoreRunner(handler, r) ==
    IF OfDeployment(handler)
    THEN deploymentRunner' = r /\ UNCHANGED installationRunner
    ELSE installationRunner' = r /\ UNCHANGED deploymentRunner

\* return new APIReturn(status, message): the thread is free again
Return(t, status, message) ==
    requests' = [requests EXCEPT
                    ![t] = [IdleRequest EXCEPT
                               !.ret = [status |-> status, message |-> message]]]

Goto(t, position) == requests' = [requests EXCEPT ![t].pc = position]

\* the requests that have passed validation and not yet returned
Provisioning == {t \in Threads : requests[t].pc \in {"tryAcquire", "create", "start"}}

\* POST/DELETE /v1/deployment and /v2/installation arrive: validate() and
\* the validator run on the request's own data (part_002 lines 56-65,
\* 154-162)
ReceiveProvisioningRequest ==
    \E t \in Threads, handler \in {"runDeployment", "runInstallation"},
       valid \in BOOLEAN :
        /\ requests[t].pc = "idle"
        /\ Len(runners) + Cardinality(Provisioning) < MaxRunners
        /\ IF valid
           THEN requests' = [requests EXCEPT
                    ![t] = [IdleRequest EXCEPT !.handler = handler, !.pc = "tryAcquire"]]
           ELSE Return(t, "STATUS_FAIL", "validation")
        /\ UNCHANGED << attributionVars, liftVars, singleProvisioningLock, deploymentRunner,
                        installationRunner, runners, monitor >>

\* variant: the semaphore hands out a permit it does not have
tryAcquireUnconditionally(permits) == TRUE

\* Semaphore.tryAcquire: succeeds exactly when a permit is available
tryAcquire(permits) == permits > 0

\* lines 70-74 / 166-170
TryAcquire ==
    \E t \in Threads :
        /\ requests[t].pc = "tryAcquire"
        /\ IF tryAcquire(singleProvisioningLock)
           THEN /\ singleProvisioningLock' = singleProvisioningLock - 1
                /\ Goto(t, "create")
           ELSE /\ Return(t, "STATUS_FAIL", "in progress")
                /\ UNCHANGED singleProvisioningLock
        /\ UNCHANGED << attributionVars, liftVars, deploymentRunner, installationRunner,
                        runners, monitor >>

\* lines 77-83 / 173-179: the constructor returns and the field is
\* assigned, or it throws and the catch clause returns STATUS_ERROR
\* (lines 86-87 / 186-187)
CreateRunner ==
    \E t \in Threads, thrown \in BOOLEAN :
        /\ requests[t].pc = "create"
        /\ IF thrown
           THEN /\ Return(t, "STATUS_ERROR", "exception")
                /\ UNCHANGED << deploymentRunner, installationRunner, runners >>
           ELSE /\ runners' = Append(runners,
                                     [deployment |-> OfDeployment(requests[t].handler),
                                      state |-> "STATE_NOT_STARTED",
                                      finished |-> FALSE])
                /\ StoreRunner(requests[t].handler, Len(runners) + 1)
                /\ Goto(t, "start")
        /\ UNCHANGED << attributionVars, liftVars, singleProvisioningLock, monitor >>

\* lines 84-85 / 180-185: start() is called through the field, which is
\* read again; on null the NullPointerException leaves the handler
StartRunner ==
    \E t \in Threads :
        /\ requests[t].pc = "start"
        /\ LET r == StoredRunner(requests[t].handler)
           IN  IF r = 0
               THEN /\ Return(t, "uncaught", "NullPointerException")
                    /\ UNCHANGED runners
               ELSE /\ runners' = [runners EXCEPT ![r].state = "STATE_RUNNING"]
                    /\ Return(t, "STATUS_SUCCESS", "started")
        /\ UNCHANGED << attributionVars, liftVars, singleProvisioningLock, deploymentRunner,
                        installationRunner, monitor >>

\* the runner's process ends
RunnerHalts ==
    \E r \in 1..Len(runners) :
        /\ runners[r].state = "STATE_RUNNING"
        /\ runners' = [runners EXCEPT ![r].state = "STATE_HALTED"]
        /\ UNCHANGED << attributionVars, liftVars, singleProvisioningLock, deploymentRunner,
                        installationRunner, monitor, requests >>

\* the halted runner runs the callback of lines 81-83 / 177-179
RunnerCallback ==
    \E r \in 1..Len(runners) :
        /\ runners[r].state = "STATE_HALTED"
        /\ ~runners[r].finished
        /\ runners' = [runners EXCEPT ![r].finished = TRUE]
        /\ singleProvisioningLock' = singleProvisioningLock + 1
        /\ UNCHANGED << attributionVars, liftVars, deploymentRunner, installationRunner,
                        monitor, requests >>

\* GET /v1/deployment and /v2/installation arrive
ReceiveStatusRequest ==
    \E t \in Threads, handler \in {"deploymentStatus", "installationStatus"} :
        /\ requests[t].pc = "idle"
        /\ requests' = [requests EXCEPT
                 ![t] = [IdleRequest EXCEPT !.handler = handler, !.pc = "enter"]]
        /\ UNCHANGED << attributionVars, liftVars, singleProvisioningLock, deploymentRunner,
                        installationRunner, runners, monitor >>

\* lines 111-114 / 216-219: enter synchronized (this) and test the field
StatusEnter ==
    \E t \in Threads :
        /\ requests[t].pc = "enter"
        /\ monitor = 0
        /\ IF StoredRunner(requests[t].handler) = 0
           THEN Return(t, "STATUS_SUCCESS", "no runner") /\ UNCHANGED monitor
           ELSE Goto(t, "state") /\ monitor' = t
        /\ UNCHANGED << attributionVars, liftVars, singleProvisioningLock, deploymentRunner,
                        installationRunner, runners >>

\* lines 116-120 / 221-225: read the field again and ask the runner's state
StatusGetState ==
    \E t \in Threads :
        /\ requests[t].pc = "state"
        /\ LET r == StoredRunner(requests[t].handler)
           IN  IF r = 0
               THEN Return(t, "STATUS_ERROR", "exception") /\ monitor' = 0
               ELSE IF runners[r].state = "STATE_HALTED"
                    THEN /\ requests' = [requests EXCEPT
                                 ![t].pc = "clear", ![t].state = runners[r].state]
                         /\ UNCHANGED monitor
                    ELSE Return(t, "STATUS_SUCCESS", runners[r].state) /\ monitor' = 0
        /\ UNCHANGED << attributionVars, liftVars, singleProvisioningLock, deploymentRunner,
                        installationRunner, runners >>

\* lines 121-126 / 226-232: the field is set to null and the handler
\* leaves synchronized (this)
StatusClear ==
    \E t \in Threads :
        /\ requests[t].pc = "clear"
        /\ StoreRunner(requests[t].handler, 0)
        /\ Return(t, "STATUS_SUCCESS", requests[t].state)
        /\ monitor' = 0
        /\ UNCHANGED << attributionVars, liftVars, singleProvisioningLock, runners >>

NextController ==
    \/ ReceiveProvisioningRequest
    \/ TryAcquire
    \/ CreateRunner
    \/ StartRunner
    \/ RunnerHalts
    \/ RunnerCallback
    \/ ReceiveStatusRequest
    \/ StatusEnter
    \/ StatusGetState
    \/ StatusClear

\* every handler that has begun goes on, and every started runner ends
FairController ==
    /\ WF_vars(TryAcquire)
    /\ WF_vars(CreateRunner)
    /\ WF_vars(StartRunner)
    /\ WF_vars(RunnerHalts)
    /\ WF_vars(RunnerCallback)
    /\ WF_vars(StatusEnter)
    /\ WF_vars(StatusGetState)
    /\ WF_vars(StatusClear)

(***************************************************************************)
(* Lift InputData                                                          *)
(***************************************************************************)
\* a & b on non-negative integers
RECURSIVE BitwiseAnd(_, _)
BitwiseAnd(a, b) ==
    IF a = 0 \/ b = 0 THEN 0
    ELSE (a % 2) * (b % 2) + 2 * BitwiseAnd(a \div 2, b \div 2)

\* x ? 1 : 0, and !x as an integer
Truth(x) == IF x # 0 THEN 1 ELSE 0
Not(x) == IF x = 0 THEN 1 ELSE 0

\* the locals of addFromCSV (lines 122-125) and what it has pushed
NoFlags ==
    [sawOppFlag |-> FALSE, sawTestFlag |-> FALSE,
     storedOpportunityFlag |-> 0, storedTestFlag |-> 0,
     test |-> <<>>, control |-> <<>>]

\* lines 142-150: the "opportunity" column
onOpportunity(st, parsed) ==
    IF st.sawTestFlag
    THEN [st EXCEPT
            !.sawOppFlag = TRUE,
            !.test = Append(@, Truth(BitwiseAnd(parsed, st.storedTestFlag))),
            !.control = Append(@, Truth(BitwiseAnd(parsed, Truth(Not(st.storedTestFlag)))))]
    ELSE [st EXCEPT !.sawOppFlag = TRUE, !.storedOpportunityFlag = parsed]

\* variant: the test flag is stored whether or not the opportunity flag
\* has been seen
onTestFlagStoredOnly(st, parsed) ==
    [st EXCEPT !.sawTestFlag = TRUE, !.storedTestFlag = parsed]

\* lines 151-158: the "test_flag" column
onTestFlag(st, parsed) ==
    IF st.sawOppFlag
    THEN [st EXCEPT
            !.sawTestFlag = TRUE,
            !.test = Append(@, Truth(BitwiseAnd(parsed, st.storedOpportunityFlag))),
            !.control = Append(@, Truth(BitwiseAnd(Not(parsed), st.storedOpportunityFlag)))]
    ELSE [st EXCEPT !.sawTestFlag = TRUE, !.storedTestFlag = parsed]

\* lines 127-233: the loop over the columns, from column i on
RECURSIVE addColumns(_, _, _, _)
addColumns(st, header, parts, i) ==
    IF i > Len(header) THEN st
    ELSE addColumns(
             IF header[i] = "opportunity" THEN onOpportunity(st, parts[i])
             ELSE IF header[i] = "test_flag" THEN onTestFlag(st, parts[i])
             ELSE st,
             header, parts, i + 1)

\* addFromCSV: what one line appends to testPopulation_ and
\* controlPopulation_ (lines 238-241: without an opportunity column every
\* row is an opportunity)
addFromCSV(header, parts) ==
    LET st == addColumns(NoFlags, header, parts, 1)
    IN  IF ~st.sawOppFlag
        THEN [test |-> Append(st.test, st.storedTestFlag),
              control |-> Append(st.control, 1 - st.storedTestFlag)]
        ELSE [test |-> st.test, control |-> st.control]

\* the fields of a data line in the order of the header
Parts(header, line) == [i \in 1..Len(header) |-> line[header[i]]]

\* the readLine callback of the constructor (lines 32-36)
readLine ==
    /\ numRows_ < Len(liftFile.lines)
    /\ numRows_' = numRows_ + 1
    /\ LET pushed == addFromCSV(liftFile.header,
                                Parts(liftFile.header, liftFile.lines[numRows_ + 1]))
       IN  /\ testPopulation_' = testPopulation_ \o pushed.test
           /\ controlPopulation_' = controlPopulation_ \o pushed.control
    /\ UNCHANGED << attributionVars, controllerVars, liftFile >>

NextLift == readLine

(***************************************************************************)
(* Inputs                                                                  *)
(***************************************************************************)
RuleNames(catalog) == {catalog[i].name : i \in 1..Len(catalog)}

\* the touchpoints and conversions a CSV line of the engine runs may hold:
\* views and clicks on two days, each ad with its own id; conversions on
\* two days
TouchpointValues ==
    {[ts |-> t, isClick |-> k, originalAdId |-> 10 * t + (IF k THEN 1 ELSE 0)] :
        t \in {1, 3}, k \in BOOLEAN}

ConversionValues == {[ts |-> t, convValue |-> 4 + t] : t \in {2, 4}}

\* One user row, every standard rule, both output formats, plaintext input
InitEngine ==
    \E maxTp \in 0..MaxTouchpoints, maxConv \in 0..MaxConversions,
       fmt \in BOOLEAN, name \in RuleNames(StandardCatalog) :
    \E tps \in SeqsUpTo(TouchpointValues, maxTp),
       convs \in SeqsUpTo(ConversionValues, maxConv) :
        Start([maxTouchpoints |-> maxTp, maxConversions |-> maxConv,
               usingBatch |-> FALSE, useNewOutputFormat |-> fmt,
               inputEncryption |-> "Plaintext", catalog |-> StandardCatalog,
               attributionRulesStr |-> <<name>>],
              << [tps |-> tps, convs |-> convs] >>)

SpecEngine == InitEngine /\ [][Next]_vars

\* The same rows, first with the flag vector output and then with the
\* per-conversion record output.
InitFormats ==
    \E maxTp \in 0..MaxTouchpoints, maxConv \in 0..MaxConversions,
       name \in RuleNames(StandardCatalog) :
    \E tps \in SeqsUpTo(TouchpointValues, maxTp),
       convs \in SeqsUpTo(ConversionValues, maxConv) :
        Start([maxTouchpoints |-> maxTp, maxConversions |-> maxConv,
               usingBatch |-> FALSE, useNewOutputFormat |-> FALSE,
               inputEncryption |-> "Plaintext", catalog |-> StandardCatalog,
               attributionRulesStr |-> <<name>>],
              << [tps |-> tps, convs |-> convs] >>)

SpecFormats == InitFormats /\ [][NextFormats]_vars

\* One row whose event lists are in any order and may be one longer than
\* the maximum, as plaintext and as XOR-shared input.
InitParsing ==
    \E maxTp \in 0..MaxTouchpoints, maxConv \in 0..MaxConversions,
       enc \in {"Plaintext", "Xor"} :
    \E tps \in SeqsUpTo(TouchpointValues, maxTp + 1),
       convs \in SeqsUpTo({[ts |-> 4, convValue |-> 8]}, maxConv + 1) :
        Start([maxTouchpoints |-> maxTp, maxConversions |-> maxConv,
               usingBatch |-> FALSE, useNewOutputFormat |-> FALSE,
               inputEncryption |-> enc, catalog |-> StandardCatalog,
               attributionRulesStr |-> <<"last_touch_1d">>],
              << [tps |-> tps, convs |-> convs] >>)

SpecParsing == InitParsing /\ [][Next]_vars

\* no attribution run takes part
NoAttributionRun ==
    /\ cfg = [maxTouchpoints |-> 0, maxConversions |-> 0,
              usingBatch |-> FALSE, useNewOutputFormat |-> FALSE,
              inputEncryption |-> "Plaintext", catalog |-> StandardCatalog,
              attributionRulesStr |-> <<>>]
    /\ rawRows = <<>>
    /\ previous = NoPrevious
    /\ ops = NoOps
    /\ partner = [file |-> <<>>, originalAdId |-> <<>>,
                  mapping |-> [written |-> FALSE, map |-> <<>>]]
    /\ attributionRules_ = <<>>
    /\ ids = <<>>
    /\ parsedTouchpoints = <<>>
    /\ parsedConversions = <<>>
    /\ tpArrays_ = <<>>
    /\ convArrays_ = <<>>
    /\ touchpoints = <<>>
    /\ compressionMapping = [written |-> FALSE, map |-> <<>>]
    /\ tpArrays = <<>>
    /\ convArrays = <<>>
    /\ attributionRules = [publisher |-> <<>>, partner |-> <<>>]
    /\ ruleIndex = 0
    /\ thresholdArrays = <<>>
    /\ helper = IdleHelper
    /\ attributions = <<>>
    /\ attributionMetrics = <<>>
    /\ out = <<>>
    /\ pc = "construct"
    /\ err = "none"

\* a Lift input file: the two flag columns in either order, or test_flag
\* alone, and up to MaxLiftRows lines of flag values
LiftHeaders ==
    {<<"opportunity", "test_flag">>, <<"test_flag", "opportunity">>, <<"test_flag">>}

LiftLines ==
    SeqsUpTo([opportunity : 0..MaxFlagValue, test_flag : 0..MaxFlagValue], MaxLiftRows)

InitLift ==
    /\ NoAttributionRun
    /\ ControllerIdle
    /\ \E header \in LiftHeaders, lines \in LiftLines :
          liftFile = [header |-> header, lines |-> lines]
    /\ numRows_ = 0
    /\ testPopulation_ = <<>>
    /\ controlPopulation_ = <<>>

SpecLift == InitLift /\ [][NextLift]_vars

\* the provisioning server after start-up; no attribution run takes part
InitController ==
    Start([maxTouchpoints |-> 0, maxConversions |-> 0,
           usingBatch |-> FALSE, useNewOutputFormat |-> FALSE,
           inputEncryption |-> "Plaintext", catalog |-> StandardCatalog,
           attributionRulesStr |-> <<>>],
          <<>>)

SpecController == InitController /\ [][NextController]_vars /\ FairController


\* A shard of several user rows, in both layouts and both output formats.
\* A row is either full (max_num_touchpoints clicks of day 3, ad 17, and
\* max_num_conversions conversions of day 4) or empty.
PipelineRow(maxTp, maxConv, full) ==
    IF full
    THEN [tps |-> [j \in 1..maxTp |-> [ts |-> 3, isClick |-> TRUE, originalAdId |-> 17]],
          convs |-> [j \in 1..maxConv |-> [ts |-> 4, convValue |-> 8]]]
    ELSE [tps |-> <<>>, convs |-> <<>>]

InitPipeline ==
    \E maxTp \in 0..MaxTouchpoints, maxConv \in 0..MaxConversions,
       batch \in BOOLEAN, fmt \in BOOLEAN, name \in RuleNames(StandardCatalog) :
    \E full \in SeqsUpTo(BOOLEAN, MaxRows) :
        Start([maxTouchpoints |-> maxTp, maxConversions |-> maxConv,
               usingBatch |-> batch, useNewOutputFormat |-> fmt,
               inputEncryption |-> "Plaintext", catalog |-> StandardCatalog,
               attributionRulesStr |-> <<name>>],
              [i \in 1..Len(full) |-> PipelineRow(maxTp, maxConv, full[i])])

SpecPipeline == InitPipeline /\ [][Next]_vars

\* Rule catalogs of every size up to 2^attributionRuleIdWidth: n rules with
\* the ids first, first + stride, ..., alternating click policy and window
\* (stride 1, 4 or 7; the larger strides reach ids beyond 3 bits)
CatalogOf(n, first, stride) ==
    [k \in 1..n |->
        LET id == first + stride * (k - 1)
        IN  [id |-> id, name |-> "rule_" \o to_string(id),
             window |-> IF k % 2 = 0 THEN 7 ELSE 1, clickOnly |-> k % 2 = 1]]

Catalogs ==
    {StandardCatalog} \cup
    {CatalogOf(n, first, stride) :
        n \in 0..(2 ^ attributionRuleIdWidth), first \in {0, 1}, stride \in {1, 4, 7}}

\* the fields of the rule flag: names of the catalog, a name that is none,
\* and the empty field
RuleFields(catalog) ==
    {"", "no_such_rule"} \cup
    (IF catalog = <<>> THEN {}
     ELSE {catalog[1].name, catalog[Len(catalog)].name})

\* One user row with a click of day 3 and a conversion of day 4, every
\* catalog, every rule flag of up to MaxRuleNames fields
InitRules ==
    \E catalog \in Catalogs, fmt \in BOOLEAN :
    \E fields \in SeqsUpTo(RuleFields(catalog), MaxRuleNames) :
        Start([maxTouchpoints |-> 1, maxConversions |-> 1,
               usingBatch |-> FALSE, useNewOutputFormat |-> fmt,
               inputEncryption |-> "Plaintext", catalog |-> catalog,
               attributionRulesStr |-> fields],
              << PipelineRow(1, 1, TRUE) >>)

SpecRules == InitRules /\ [][Next]_vars

\* Ad ids: every list of up to MaxAdIdTouchpoints ids of a small pool with
\* repetitions and zeros, and the lists of n distinct ids in descending
\* order for n around the most the counter can number.  Every id is the
\* only touchpoint of its user row.
MaxAdIdTouchpoints == 5

SmallAdIdPool == {0, 17, 42, 500}

DistinctAdIds(n) == [i \in 1..n |-> 1000 + 7 * (n - i)]

AdIdLists ==
    SeqsUpTo(SmallAdIdPool, MaxAdIdTouchpoints) \cup
    {DistinctAdIds(n) : n \in (MaxNumAdIds - 1)..(MaxNumAdIds + 1)}

InitAdIds ==
    \E batch \in BOOLEAN, adIds \in AdIdLists :
        Start([maxTouchpoints |-> 1, maxConversions |-> 1,
               usingBatch |-> batch, useNewOutputFormat |-> TRUE,
               inputEncryption |-> "Plaintext", catalog |-> StandardCatalog,
               attributionRulesStr |-> <<"last_touch_1d">>],
              [i \in 1..Len(adIds) |->
                  [tps |-> << [ts |-> 3, isClick |-> FALSE, originalAdId |-> adIds[i]] >>,
                   convs |-> << [ts |-> 4, convValue |-> 8] >>]])

SpecAdIds == InitAdIds /\ [][Next]_vars

\* Runs over several rules: one user row with one touchpoint and one
\* conversion, every list of up to MaxRuleNames standard rule names, both
\* layouts and both output formats
InitKeying ==
    \E batch \in BOOLEAN, fmt \in BOOLEAN,
       tp \in TouchpointValues, conv \in ConversionValues :
    \E names \in SeqsUpTo(RuleNames(StandardCatalog), MaxRuleNames) :
        Start([maxTouchpoints |-> 1, maxConversions |-> 1,
               usingBatch |-> batch, useNewOutputFormat |-> fmt,
               inputEncryption |-> "Plaintext", catalog |-> StandardCatalog,
               attributionRulesStr |-> names],
              << [tps |-> <<tp>>, convs |-> <<conv>>] >>)

SpecKeying == InitKeying /\ [][Next]_vars

\* Runs that are repeated: up to MaxRerunRows user rows whose one
\* touchpoint has an ad id of the pool, two rules, both layouts and both
\* output formats
MaxRerunRows == 3

InitRerun ==
    \E batch \in BOOLEAN, fmt \in BOOLEAN, adIds \in SeqsUpTo(SmallAdIdPool, MaxRerunRows) :
        Start([maxTouchpoints |-> 1, maxConversions |-> 1,
               usingBatch |-> batch, useNewOutputFormat |-> fmt,
               inputEncryption |-> "Plaintext", catalog |-> StandardCatalog,
               attributionRulesStr |-> <<"last_click_1d", "last_touch_1d">>],
              [i \in 1..Len(adIds) |->
                  [tps |-> << [ts |-> 3, isClick |-> FALSE, originalAdId |-> adIds[i]] >>,
                   convs |-> << [ts |-> 4, convValue |-> 8] >>]])

SpecRerun == InitRerun /\ [][NextRerun]_vars

\* the same runs, interleaved with a second instance of the process
SpecConcurrent == InitRerun /\ [][NextConcurrent]_vars

\* Runs of the two parties' compression: up to MaxSharedRows user rows
\* with one touchpoint each, the publisher's ad ids and the values of the
\* partner's own input drawn from disjoint pools, plaintext and XOR-shared
\* input, both layouts
MaxSharedRows == 2

PartnerAdIdPool == {0, 23}

InitShared ==
    \E batch \in BOOLEAN, enc \in {"Plaintext", "Xor"},
       adIds \in SeqsUpTo(SmallAdIdPool, MaxSharedRows) :
    \E held \in [1..Len(adIds) -> PartnerAdIdPool] :
        StartWith([maxTouchpoints |-> 1, maxConversions |-> 1,
                   usingBatch |-> batch, useNewOutputFormat |-> TRUE,
                   inputEncryption |-> enc, catalog |-> StandardCatalog,
                   attributionRulesStr |-> <<"last_touch_1d">>],
                  [i \in 1..Len(adIds) |->
                      [tps |-> << [ts |-> 3, isClick |-> FALSE, originalAdId |-> adIds[i]] >>,
                       convs |-> << [ts |-> 4, convValue |-> 8] >>]],
                  [i \in 1..Len(adIds) |-> << held[i] >>])

SpecShared == InitShared /\ [][Next]_vars

\* Inputs at the limits that are validated, in plaintext and XOR-shared:
\* n distinct ad ids for n around the most the counter can number, each the
\* only touchpoint of its row, or one row with a second touchpoint or a
\* second conversion beyond the maximum of one
ValidationRows ==
    {[i \in 1..n |->
         [tps |-> << [ts |-> 3, isClick |-> FALSE, originalAdId |-> DistinctAdIds(n)[i]] >>,
          convs |-> << [ts |-> 4, convValue |-> 8] >>]] :
       n \in (MaxNumAdIds - 1)..(MaxNumAdIds + 1)}
    \cup
    {<< [tps |-> [j \in 1..nT |-> [ts |-> 3, isClick |-> FALSE, originalAdId |-> 17]],
         convs |-> [j \in 1..nC |-> [ts |-> 4, convValue |-> 8]]] >> :
       nT \in 1..2, nC \in 1..2}

InitValidation ==
    \E batch \in BOOLEAN, fmt \in BOOLEAN, enc \in {"Plaintext", "Xor"},
       rows \in ValidationRows :
        Start([maxTouchpoints |-> 1, maxConversions |-> 1,
               usingBatch |-> batch, useNewOutputFormat |-> fmt,
               inputEncryption |-> enc, catalog |-> StandardCatalog,
               attributionRulesStr |-> <<"last_touch_1d">>],
              rows)

SpecValidation == InitValidation /\ [][Next]_vars

\* Calls of computeAttributionsHelper(V2) with arguments of every length:
\* nT touchpoints, nC conversions and the thresholds of nTh touchpoints of
\* one user row, in both layouts and both formats
HelperArgumentRow(n) ==
    [j \in 1..n |-> [isClick |-> TRUE, ts |-> 3, originalAdId |-> 17, adId |-> 1]]

InitHelper ==
    \E batch \in BOOLEAN, fmt \in BOOLEAN, nT \in 0..MaxTouchpoints,
       nTh \in 0..MaxTouchpoints, nC \in 0..MaxConversions :
        LET c == [maxTouchpoints |-> nT, maxConversions |-> nC,
                  usingBatch |-> batch, useNewOutputFormat |-> fmt,
                  inputEncryption |-> "Plaintext", catalog |-> StandardCatalog,
                  attributionRulesStr |-> <<"last_touch_1d">>]
            rule == fromNameOrThrow(StandardCatalog, "last_touch_1d")
            tps == convertParsedTouchpointsToTouchpoints(c, << HelperArgumentRow(nT) >>)
            thresholdTps ==
                convertParsedTouchpointsToTouchpoints(
                    [c EXCEPT !.maxTouchpoints = nTh], << HelperArgumentRow(nTh) >>)
            convs == convertParsedConversionsToConversions(
                         c, << [j \in 1..nC |-> [ts |-> 4, convValue |-> 8]] >>)
        IN  /\ cfg = c
            /\ rawRows = <<>>
            /\ previous = NoPrevious
            /\ ops = NoOps
            /\ partner = [file |-> <<>>, originalAdId |-> <<>>,
                          mapping |-> [written |-> FALSE, map |-> <<>>]]
            /\ attributionRules_ = <<"last_touch_1d">>
            /\ ids = <<0>>
            /\ parsedTouchpoints = <<>>
            /\ parsedConversions = <<>>
            /\ tpArrays_ = tps
            /\ convArrays_ = convs
            /\ touchpoints = tps
            /\ compressionMapping = [written |-> FALSE, map |-> <<>>]
            /\ tpArrays = privatelyShareTouchpoints(c, tps)
            /\ convArrays = privatelyShareConversions(c, convs)
            /\ attributionRules = [publisher |-> <<rule>>, partner |-> <<rule>>]
            /\ ruleIndex = 1
            /\ thresholdArrays = privatelyShareThresholds(c, thresholdTps, rule)
            /\ helper = [IdleHelper EXCEPT !.row = 1]
            /\ attributions = <<>>
            /\ attributionMetrics = <<>>
            /\ out = <<>>
            /\ pc = "call"
            /\ err = "none"
            /\ ControllerIdle
            /\ NoLiftInput

SpecHelper == InitHelper /\ [][NextHelper]_vars

(***************************************************************************)
(* Reading a run's state                                                   *)
(***************************************************************************)
Rows == 1..numIds
NumTp == cfg.maxTouchpoints
NumConv == cfg.maxConversions

\* the shared touchpoint t / conversion c of row r, in either layout
TpTs(r, t) == IF cfg.usingBatch THEN tpArrays[t].ts[r] ELSE tpArrays[r][t].ts[1]
TpIsClick(r, t) ==
    IF cfg.usingBatch THEN tpArrays[t].isClick[r] ELSE tpArrays[r][t].isClick[1]
TpAdId(r, t) == IF cfg.usingBatch THEN tpArrays[t].adId[r] ELSE tpArrays[r][t].adId[1]
ConvTs(r, c) == IF cfg.usingBatch THEN convArrays[c].ts[r] ELSE convArrays[r][c].ts[1]

IsSentinel(r, t) == TpTs(r, t) = 0 /\ TpAdId(r, t) = 0 /\ ~TpIsClick(r, t)

\* the rule's predicate on touchpoint t and conversion c of row r
Attributable(rule, r, c, t) ==
    isAttributable([ts |-> <<TpTs(r, t)>>], [ts |-> <<ConvTs(r, c)>>],
                   computeThresholds(rule, [ts |-> <<TpTs(r, t)>>,
                                            isClick |-> <<TpIsClick(r, t)>>]))[1]

\* a run that returned its per-pair flags (the first output format)
FinishedV1 == pc = "done" /\ ~cfg.useNewOutputFormat
ScanningV1 == pc \in {"inner", "outer"} /\ ~cfg.useNewOutputFormat

RevealedRules == Range(attributionRules.publisher)

\* the flag of (conversion c, touchpoint t) of row r in a returned vector:
\* forward position (c - 1) * NumTp + t, counted from 1
FlagAt(attr, r, c, t) ==
    IF cfg.usingBatch THEN attr[(c - 1) * NumTp + t][r]
    ELSE attr[r][(c - 1) * NumTp + t][1]

Flagged(rule, r, c) ==
    {t \in 1..NumTp : FlagAt(out[rule.name].default, r, c, t)}

\* the p-th flag the running helper has pushed belongs to this conversion
\* and touchpoint (both loops run from the last index down)
PushedConv(p) == NumConv - ((p - 1) \div NumTp)
PushedTp(p) == NumTp - ((p - 1) % NumTp)
\* the row a lane of the running helper stands for
HelperRow(l) == IF cfg.usingBatch THEN l ELSE helper.row

(***************************************************************************)
(* Properties of the attribution engine                                    *)
(***************************************************************************)
\* C1: for every conversion at most one touchpoint is flagged attributed;
\* this holds of the flags pushed so far after every pass of the inner
\* loop, and of every returned vector.
C1_AtMostOneAttribution ==
    /\ ScanningV1 =>
          \A c \in 1..NumConv : \A l \in 1..HelperLanes :
              Cardinality({p \in 1..Len(helper.attributions) :
                              PushedConv(p) = c /\ helper.attributions[p][l]}) <= 1
    /\ FinishedV1 =>
          \A rule \in RevealedRules : \A r \in Rows : \A c \in 1..NumConv :
              Cardinality(Flagged(rule, r, c)) <= 1

\* a conversion with two attributable touchpoints, one of them flagged
C1_Witness ==
    /\ FinishedV1
    /\ \E rule \in RevealedRules : \E r \in Rows : \E c \in 1..NumConv :
          /\ Cardinality({t \in 1..NumTp : Attributable(rule, r, c, t)}) >= 2
          /\ Cardinality(Flagged(rule, r, c)) = 1

ClicksInWindow(rule, r, c) ==
    {t \in 1..NumTp : /\ TpIsClick(r, t)
                      /\ TpTs(r, t) > 0
                      /\ TpTs(r, t) < ConvTs(r, c)
                      /\ ConvTs(r, c) <= TpTs(r, t) + rule.window}

NegotiationDone == pc \in {"rule", "call", "outer", "inner", "reveal", "done"}

\* the catalog's ids are unique and fit attributionRuleIdWidth bits
CatalogFitsIdWidth(catalog) ==
    /\ \A i \in 1..Len(catalog) : catalog[i].id \in 0..(2 ^ attributionRuleIdWidth - 1)
    /\ \A i, j \in 1..Len(catalog) : catalog[i].id = catalog[j].id => i = j

\* C5: when shareAttributionRules has returned on both sides, for a catalog
\* that passed the size check and whose ids are unique and fit 3 bits, the
\* publisher's and the partner's lists have the length of the publisher's
\* list of names, their i-th entries are the same catalog rule, the one
\* the i-th name names, and the partner's list is a function of the rule
\* ids alone.
C5_RuleNegotiation ==
    (NegotiationDone /\ CatalogFitsIdWidth(cfg.catalog)) =>
        LET pub == attributionRules.publisher
            par == attributionRules.partner
        IN  /\ Len(pub) = Len(attributionRules_)
            /\ Len(par) = Len(pub)
            /\ \A i \in 1..Len(pub) :
                  /\ pub[i] = par[i]
                  /\ pub[i] \in Range(cfg.catalog)
                  /\ pub[i].name = attributionRules_[i]
            /\ par = partnerRules(cfg.catalog, [i \in 1..Len(pub) |-> pub[i].id])

\* two different rules negotiated, one of them with an id that needs the
\* third bit
C5_Witness ==
    /\ NegotiationDone
    /\ CatalogFitsIdWidth(cfg.catalog)
    /\ Len(attributionRules.partner) = 2
    /\ attributionRules.partner[1] # attributionRules.partner[2]
    /\ \E i \in 1..2 : attributionRules.partner[i].id >= 4

\* the run has been through shareAttributionRules (it returned or failed)
RulesStageOver ==
    /\ pc \notin {"construct", "convert", "compress", "share", "rules"}
    /\ ~(pc = "error" /\ err \in {"check_num_events", "out_of_range", "check_num_ad_ids"})

NothingAttributed ==
    /\ attributionRules = [publisher |-> <<>>, partner |-> <<>>]
    /\ ruleIndex = 0
    /\ thresholdArrays = <<>>
    /\ attributions = <<>>
    /\ out = <<>>

UnknownRuleName ==
    \E i \in 1..Len(attributionRules_) : \A j \in 1..Len(cfg.catalog) :
        cfg.catalog[j].name # attributionRules_[i]

\* some id, as it arrives in attributionRuleIdWidth bits, is no id of the catalog
InvalidSharedRuleId ==
    \E i \in 1..Len(attributionRules_) : \E j \in 1..Len(cfg.catalog) :
        /\ cfg.catalog[j].name = attributionRules_[i]
        /\ \A k \in 1..Len(cfg.catalog) :
              cfg.catalog[k].id # cfg.catalog[j].id % (2 ^ attributionRuleIdWidth)

C10_EmptyRuleListIsFatal ==
    (cfg.catalog = StandardCatalog /\ pc # "construct" /\ attributionRules_ = <<>>)
        => pc # "done"

(***************************************************************************)
(* Properties of the ad-id compression                                     *)
(***************************************************************************)
\* the compression ran: the mapping file is written
Compressed == compressionMapping.written

\* (original ad id, rewritten ad id) of every touchpoint
AdIdPairs ==
    UNION {{<<tp.originalAdId[l], tp.adId[l]>> : l \in 1..Len(tp.adId)} :
              tp \in Range(TouchpointList(cfg, touchpoints))}

DistinctAdIdsOfRun == {p[1] : p \in AdIdPairs} \ {0}

\* the position of an id among the distinct non-zero ids in ascending order
Rank(id) == Cardinality({x \in DistinctAdIdsOfRun : x <= id})

\* C6: after the compression every touchpoint with original ad id 0 has
\* adId 0 and every other touchpoint has the rank of its original ad id
\* among the distinct non-zero ids (the k-th smallest gets k).
C6_AdIdCompressionMapping ==
    Compressed =>
        \A p \in AdIdPairs : p[2] = IF p[1] = 0 THEN 0 ELSE Rank(p[1])

\* C7: a run with more distinct non-zero ad ids than the bound fails at the
\* compression, and in every run that passes the check each non-zero
\* original ad id has a non-zero dense id within the counter's width that
\* no other original ad id has.
C7_AdIdCountBound ==
    /\ (pc \notin {"construct", "convert", "compress"}
            /\ Cardinality(adIdSet(cfg, tpArrays_)) > MaxNumAdIds)
          => (pc = "error" /\ err = "check_num_ad_ids")
    /\ Compressed =>
          \A p \in AdIdPairs : p[1] # 0 =>
              /\ p[2] \in 1..(2 ^ CompressedAdIdBits - 1)
              /\ \A q \in AdIdPairs : q[2] = p[2] => q[1] = p[1]

\* C8: the written mapping inverts the rewrite: the decimal string of a
\* touchpoint's rewritten adId is a key whose value is the touchpoint's
\* non-zero original ad id, and the mapping has one entry per distinct
\* non-zero original ad id.
C8_CompressionMapRoundTrip ==
    Compressed =>
        /\ \A p \in AdIdPairs : p[1] # 0 =>
              /\ to_string(p[2]) \in DOMAIN compressionMapping.map
              /\ compressionMapping.map[to_string(p[2])] = p[1]
        /\ Cardinality(DOMAIN compressionMapping.map) = Cardinality(DistinctAdIdsOfRun)

\* the ids 500, 17, 500, 0, 42: the mapping written is 1 -> 17, 2 -> 42,
\* 3 -> 500
C8_Witness ==
    /\ Compressed
    /\ Len(rawRows) = 5
    /\ [i \in 1..5 |-> rawRows[i].tps[1].originalAdId] = <<500, 17, 500, 0, 42>>
    /\ DOMAIN compressionMapping.map = {"1", "2", "3"}
    /\ compressionMapping.map["1"] = 17
    /\ compressionMapping.map["2"] = 42
    /\ compressionMapping.map["3"] = 500

(***************************************************************************)
(* Properties of a whole run                                               *)
(***************************************************************************)
\* the isAttributed values of a returned result, in either format and layout
IsAttributedValues(attr) ==
    LET perCall == IF cfg.usingBatch THEN <<attr>> ELSE attr
    IN  UNION {UNION {Range(IF cfg.useNewOutputFormat THEN entry.is_attributed ELSE entry) :
                         entry \in Range(call)} :
                  call \in Range(perCall)}

\* C9: a run over at least one user row with max_num_touchpoints = 0 or
\* max_num_conversions = 0 ends in no error, and no isAttributed value of
\* its result is true.
C9_EmptyCapacityBoundary ==
    (Len(rawRows) >= 1 /\ (cfg.maxTouchpoints = 0 \/ cfg.maxConversions = 0)) =>
        /\ pc # "error"
        /\ \A name \in DOMAIN out : TRUE \notin IsAttributedValues(out[name].default)

\* C12: a run that has failed has written no output artifact.
C12_NoPartialOutput ==
    pc = "error" => ~compressionMapping.written

(***************************************************************************)
(* The result of a run as a function of what the engine is given           *)
(***************************************************************************)
ConvValue(r, c) ==
    IF cfg.usingBatch THEN convArrays[c].convValue[r] ELSE convArrays[r][c].convValue[1]

\* the attributable touchpoint of highest index, if any
LastAttributable(rule, r, c) ==
    {t \in 1..NumTp : /\ Attributable(rule, r, c, t)
                      /\ \A u \in (t + 1)..NumTp : ~Attributable(rule, r, c, u)}

ExpectedAdId(rule, r, c) ==
    IF LastAttributable(rule, r, c) = {} THEN 0
    ELSE TpAdId(r, CHOOSE t \in LastAttributable(rule, r, c) : TRUE)

\* what one helper call returns for the rows its lanes stand for
ExpectedCall(rule, laneRows) ==
    IF cfg.useNewOutputFormat
    THEN [c \in 1..NumConv |->
            [ad_id |-> [l \in 1..Len(laneRows) |-> ExpectedAdId(rule, laneRows[l], c)],
             conv_value |-> [l \in 1..Len(laneRows) |-> ConvValue(laneRows[l], c)],
             is_attributed |->
                 [l \in 1..Len(laneRows) |-> LastAttributable(rule, laneRows[l], c) # {}]]]
    ELSE [p \in 1..(NumConv * NumTp) |->
            [l \in 1..Len(laneRows) |->
                (((p - 1) % NumTp) + 1)
                    \in LastAttributable(rule, laneRows[l], ((p - 1) \div NumTp) + 1)]]

ExpectedResult(rule) ==
    IF cfg.usingBatch THEN ExpectedCall(rule, [l \in 1..numIds |-> l])
    ELSE [r \in 1..numIds |-> ExpectedCall(rule, <<r>>)]

\* C13: when a run has returned, out has one entry per active rule name
\* and no other, each entry has the one format "default", and that format
\* holds the result of the rule the entry is named after.
C13_OutputKeying ==
    pc = "done" =>
        /\ DOMAIN out = {rule.name : rule \in RevealedRules}
        /\ \A rule \in RevealedRules :
              /\ DOMAIN out[rule.name] = {"default"}
              /\ out[rule.name].default = ExpectedResult(rule)

\* two active rules whose results differ
C13_Witness ==
    /\ pc = "done"
    /\ Len(attributionRules.publisher) = 2
    /\ \E n1, n2 \in DOMAIN out : out[n1].default # out[n2].default

\* C14: a second run on the same flags and the same input file returns
\* the output the first run returned and leaves the mapping file as the
\* first run wrote it, whatever order the id set is iterated in and
\* whatever the first run left behind.
C14_Idempotence ==
    (pc = "done" /\ previous.ran) =>
        /\ out = previous.out
        /\ compressionMapping = previous.mapping

\* a second run has finished, with a mapping of three ad ids and a result
\* for each of the two rules
C14_Witness ==
    /\ pc = "done"
    /\ previous.ran
    /\ compressionMapping.written
    /\ Cardinality(DOMAIN compressionMapping.map) = 3
    /\ Cardinality(DOMAIN out) = 2

\* what the partner can hold after the compression, from its own input alone
PartnerHolds(keepsShare) ==
    IF cfg.inputEncryption = "Xor" /\ ~keepsShare
    THEN [i \in 1..Len(partner.file) |-> [j \in 1..Len(partner.file[i]) |-> 0]]
    ELSE partner.file

\* C15: after the compression, the originalAdId values the partner holds
\* and the mapping file the partner has written are determined by the
\* partner's own input; no original ad id of the publisher is in them.
C15_MappingConfidentiality ==
    Compressed =>
        \E keepsShare \in BOOLEAN :
            /\ partner.originalAdId = PartnerHolds(keepsShare)
            /\ partner.mapping.map =
                  compressedAdIdToAdIdMap(
                      SortAscending(Range(Flatten(PartnerHolds(keepsShare))) \ {0}))

\* XOR-shared input whose ad ids 17 and 42 were opened to the publisher
\* and are in its mapping, while the partner has written its own file
C15_Witness ==
    /\ Compressed
    /\ cfg.inputEncryption = "Xor"
    /\ {compressionMapping.map[k] : k \in DOMAIN compressionMapping.map} = {17, 42}
    /\ partner.mapping.written
    /\ Range(Flatten(partner.file)) = {0, 23}

\* C16: when an instance that compresses ad ids has finished, the mapping
\* file holds the mapping of that instance's own ad ids, as it would had
\* the instance run alone, whatever another instance did meanwhile.
C16_InstanceIsolation ==
    (pc = "done" /\ cfg.useNewOutputFormat) =>
        compressionMapping.map =
            compressedAdIdToAdIdMap(SortAscending(adIdSet(cfg, tpArrays_)))

(***************************************************************************)
(* The oblivious operations of a run                                       *)
(***************************************************************************)
\* the operations the running helper call has issued
CallTrace == SubSeq(ops.publisher, helper.opsStart + 1, Len(ops.publisher))

\* the trace of a helper call over nT touchpoints and nC conversions
ShapeTrace(nT, nC) ==
    Flatten([c \in 1..nC |->
                conversionOps(cfg) \o Flatten([t \in 1..nT |-> touchpointOps(cfg)])])

HelperReturning == pc = "outer" /\ helper.ci = 0

\* C17: when a helper call returns, the operations it has issued are the
\* trace fixed by the number of touchpoints, the number of conversions and
\* the format, with one isAttributable evaluation per pair of a touchpoint
\* and a conversion, whatever the timestamps, click flags and ad ids are.
C17_DataIndependentShape ==
    HelperReturning =>
        /\ CallTrace = ShapeTrace(Len(HelperTouchpoints), Len(HelperConversions))
        /\ Cardinality({k \in 1..Len(CallTrace) : CallTrace[k] = "isAttributable"})
              = Len(HelperTouchpoints) * Len(HelperConversions)

\* a call over two touchpoints and two conversions returns after four
\* evaluations although the first touchpoint scanned was attributed
C17_Witness ==
    /\ HelperReturning
    /\ ~cfg.useNewOutputFormat
    /\ Len(HelperTouchpoints) = 2
    /\ Len(HelperConversions) = 2
    /\ Len(helper.attributions) = 4
    /\ helper.attributions[1][1]

ValidationFailed ==
    pc = "error" /\ err \in {"check_num_events", "check_num_ad_ids", "check_thresholds_size"}

\* C19: a run that has aborted on an input-validation failure has issued
\* no oblivious operation before it aborted.
C19_ValidationBeforeNetwork ==
    ValidationFailed => ops.publisher = <<>>

\* the thresholds and the touchpoints given to the helper differ in length
HelperLengthMismatch ==
    IF cfg.usingBatch THEN Len(tpArrays) # Len(thresholdArrays)
    ELSE Len(tpArrays[1]) # Len(thresholdArrays[1])

\* the helper call on row 1 has returned a result
HelperReturned == pc = "reveal" \/ (pc = "call" /\ helper.row > 1)

\* C20: a helper call whose thresholds and touchpoints differ in length
\* returns no result, whatever the number of touchpoints and conversions.
C20_LengthEqualityEnforced ==
    HelperLengthMismatch => ~HelperReturned

\* a batched run on a shard with no user row
ZeroBatchSize == cfg.usingBatch /\ Len(rawRows) = 0

\* C21: a batched run with batch size 0 never finishes, fails with the
\* invalid-batch-size error only, and issues no sharing operation before
\* it fails.
C21_ZeroBatchSizeRejected ==
    ZeroBatchSize =>
        /\ pc # "done"
        /\ pc = "error" => err = "invalid_argument"
        /\ ops.publisher = <<>>

(***************************************************************************)
(* The two output formats                                                  *)
(***************************************************************************)
\* the V2 helper calls of the current rule have returned
ReturnedV2 == pc = "reveal" /\ cfg.useNewOutputFormat

\* the record of conversion c of row r in attributionsReformatted
RecordOf(r, c) ==
    IF cfg.usingBatch
    THEN [ad_id |-> attributions[c].ad_id[r],
          conv_value |-> attributions[c].conv_value[r],
          is_attributed |-> attributions[c].is_attributed[r]]
    ELSE [ad_id |-> attributions[r][c].ad_id[1],
          conv_value |-> attributions[r][c].conv_value[1],
          is_attributed |-> attributions[r][c].is_attributed[1]]

\* the number of records returned for row r
NumRecords(r) == IF cfg.usingBatch THEN Len(attributions) ELSE Len(attributions[r])

\* C22: the V2 helper returns one record per conversion, at the
\* conversion's index; is_attributed holds exactly when some touchpoint is
\* attributable to the conversion, ad_id is the adId of the attributable
\* touchpoint of highest index and 0 when there is none, and conv_value is
\* the conversion's value in either case.
C22_V2RecordContent ==
    ReturnedV2 =>
        \A r \in Rows :
            /\ NumRecords(r) = NumConv
            /\ \A c \in 1..NumConv :
                  LET able == {t \in 1..NumTp : Attributable(CurrentRule, r, c, t)}
                  IN  /\ RecordOf(r, c).is_attributed = (able # {})
                      /\ RecordOf(r, c).ad_id =
                            IF able = {} THEN 0
                            ELSE TpAdId(r, CHOOSE t \in able : \A u \in able : u <= t)
                      /\ RecordOf(r, c).conv_value = ConvValue(r, c)

\* two touchpoints are attributable to the second conversion and the later
\* one's ad id is recorded, while the first conversion has no attribution
\* and keeps its value
C22_Witness ==
    /\ ReturnedV2
    /\ numIds = 1 /\ NumTp = 2 /\ NumConv = 2
    /\ Attributable(CurrentRule, 1, 2, 1) /\ Attributable(CurrentRule, 1, 2, 2)
    /\ RecordOf(1, 2).is_attributed
    /\ RecordOf(1, 2).ad_id = TpAdId(1, 2)
    /\ TpAdId(1, 2) # TpAdId(1, 1)
    /\ ~RecordOf(1, 1).is_attributed
    /\ RecordOf(1, 1).conv_value # 0

\* both runs have returned: previous.out holds the V1 flags, out the V2 records
BothFormatsDone == pc = "done" /\ previous.ran /\ cfg.useNewOutputFormat

\* the touchpoints of row r flagged for conversion c by the V1 run
FlaggedV1(name, r, c) ==
    {t \in 1..NumTp : FlagAt(previous.out[name].default, r, c, t)}

\* C23: on the same input and rule, the V2 record of a conversion has
\* is_attributed equal to the disjunction of the conversion's V1 flags; at
\* most one V1 flag of a conversion is set, and the record's ad_id is the
\* adId of the flagged touchpoint, or 0 when no flag is set.
C23_FormatsAgree ==
    BothFormatsDone =>
        /\ DOMAIN out = DOMAIN previous.out
        /\ \A name \in DOMAIN out : \A r \in Rows : \A c \in 1..NumConv :
              LET flagged == FlaggedV1(name, r, c)
                  record == out[name].default[r][c]
              IN  /\ Cardinality(flagged) <= 1
                  /\ record.is_attributed[1] = (flagged # {})
                  /\ record.ad_id[1] =
                        IF flagged = {} THEN 0
                        ELSE TpAdId(r, CHOOSE t \in flagged : TRUE)

\* two touchpoints are attributable to the second conversion, V1 flags the
\* later one only and V2 records its ad id; the first conversion has no
\* flag and no ad id
C23_Witness ==
    /\ BothFormatsDone
    /\ NumTp = 2 /\ NumConv = 2
    /\ \E name \in DOMAIN out :
          /\ name = FirstRule.name
          /\ Attributable(FirstRule, 1, 2, 1)
          /\ Attributable(FirstRule, 1, 2, 2)
          /\ FlaggedV1(name, 1, 2) = {2}
          /\ out[name].default[1][2].ad_id[1] = TpAdId(1, 2)
          /\ TpAdId(1, 2) # 0
          /\ FlaggedV1(name, 1, 1) = {}
          /\ ~out[name].default[1][1].is_attributed[1]

(***************************************************************************)
(* Parsing: padding and order                                              *)
(***************************************************************************)
\* the rows have been parsed and not yet laid out
Parsed == pc = "convert"

\* some row has more touchpoints or conversions than the maximum
TooManyEvents ==
    \E i \in 1..Len(rawRows) :
        \/ Len(rawRows[i].tps) > cfg.maxTouchpoints
        \/ Len(rawRows[i].convs) > cfg.maxConversions

\* C24: every parsed row has exactly maxTouchpoints touchpoint entries
\* and exactly maxConversions conversion entries whatever its number of
\* events; a row with more events than a maximum is rejected by the
\* parser, and no other row is.
C24_FixedSizePadding ==
    /\ Parsed =>
          /\ ~TooManyEvents
          /\ \A i \in 1..Len(rawRows) :
                /\ Len(parsedTouchpoints[i]) = cfg.maxTouchpoints
                /\ Len(parsedConversions[i]) = cfg.maxConversions
    /\ TooManyEvents =>
          /\ pc \in {"construct", "error"}
          /\ pc = "error" => err = "check_num_events"
    /\ (pc = "error" /\ err = "check_num_events") => TooManyEvents

\* a row with one touchpoint and no conversion is parsed to two entries of
\* each kind
C24_Witness ==
    /\ Parsed
    /\ cfg.maxTouchpoints = 2 /\ cfg.maxConversions = 2
    /\ Len(rawRows[1].tps) = 1 /\ Len(rawRows[1].convs) = 0
    /\ Len(parsedTouchpoints[1]) = 2 /\ Len(parsedConversions[1]) = 2

\* the touchpoint arrays have been handed to the engine
HandedToEngine == pc \in {"rules", "rule", "call", "outer", "inner", "reveal", "done"}

\* the number of touchpoints row r has in the input file
NumRealTp(r) == Len(rawRows[r].tps)

\* C25: in the array handed to the engine the row's real touchpoints come
\* first, in ascending timestamp order with views before clicks at equal
\* timestamps, and every entry after them is a sentinel (timestamp 0, adId
\* 0, isClick false), whether the input is plaintext or XOR-shared.
C25_SortedThenPadded ==
    HandedToEngine =>
        \A r \in Rows :
            /\ \A t \in 1..NumTp : (t > NumRealTp(r)) = IsSentinel(r, t)
            /\ \A t, u \in 1..NumRealTp(r) :
                  t < u =>
                      ~TouchpointLess([ts |-> TpTs(r, u), isClick |-> TpIsClick(r, u)],
                                      [ts |-> TpTs(r, t), isClick |-> TpIsClick(r, t)])

(***************************************************************************)
(* Batched layout                                                          *)
(***************************************************************************)
\* the constructor has laid the parsed rows out
LaidOut == pc \notin {"construct", "convert", "error"}

\* C26: in a batched run the layout of the parsed rows raises no error,
\* and it gives maxTouchpoints touchpoint columns and maxConversions
\* conversion columns whose fields all have one entry per user row.
C26_BatchedLayoutShape ==
    cfg.usingBatch =>
        /\ pc = "error" => err # "out_of_range"
        /\ LaidOut =>
              /\ Len(tpArrays_) = cfg.maxTouchpoints
              /\ Len(convArrays_) = cfg.maxConversions
              /\ \A j \in 1..Len(tpArrays_) :
                    /\ Len(tpArrays_[j].ts) = numIds
                    /\ Len(tpArrays_[j].isClick) = numIds
                    /\ Len(tpArrays_[j].originalAdId) = numIds
                    /\ Len(tpArrays_[j].adId) = numIds
              /\ \A j \in 1..Len(convArrays_) :
                    /\ Len(convArrays_[j].ts) = numIds
                    /\ Len(convArrays_[j].convValue) = numIds

(***************************************************************************)
(* DeployController: the provisioning lock                                 *)
(***************************************************************************)
\* the runners whose operation has begun and not ended: constructed, and
\* the callback has not run
InProgress == {r \in 1..Len(runners) : ~runners[r].finished}

\* the handlers between the lock and the construction of their runner
Constructing == {t \in Threads : requests[t].pc = "create"}

\* a provisioning request is turned away and nothing is constructed
Rejected(t) ==
    /\ requests'[t].ret = [status |-> "STATUS_FAIL", message |-> "in progress"]
    /\ requests'[t].pc = "idle"
    /\ runners' = runners
    /\ singleProvisioningLock' = singleProvisioningLock

\* C27: at most one provisioning operation is under way at any moment,
\* counting the handler that holds the lock and is constructing its runner;
\* and a request that asks for the lock while an operation is under way is
\* answered STATUS_FAIL and constructs no runner.
C27_SingleProvisioning ==
    /\ [](Cardinality(InProgress) + Cardinality(Constructing) <= 1)
    /\ [][\A t \in Threads :
            (/\ requests[t].pc = "tryAcquire"
             /\ requests'[t].pc # "tryAcquire"
             /\ InProgress \cup Constructing # {})
            => Rejected(t)]_vars

\* a runner is running and the other thread's request has been turned away
C27_Witness ==
    /\ \E r \in 1..Len(runners) : runners[r].state = "STATE_RUNNING"
    /\ \E t \in Threads :
          requests[t].ret = [status |-> "STATUS_FAIL", message |-> "in progress"]

\* C28: whenever the provisioning lock has been acquired it is eventually
\* released again, also when the construction or the start of the runner
\* fails.
C28_LockReleased ==
    (singleProvisioningLock = 0) ~> (singleProvisioningLock > 0)

\* the started runner of kind `deployment` that has not halted
Live(deployment) ==
    {r \in 1..Len(runners) :
        runners[r].deployment = deployment /\ runners[r].state = "STATE_RUNNING"}

\* C29: a runner that has been started and has not halted is the one its
\* field of the controller refers to; no status request has replaced it
\* by null.
C29_LiveRunnerKept ==
    /\ \A r \in Live(TRUE) : deploymentRunner = r
    /\ \A r \in Live(FALSE) : installationRunner = r

(***************************************************************************)
(* Lift InputData: the population flags                                    *)
(***************************************************************************)
\* the file has both flag columns
BothFlagColumns == {"opportunity", "test_flag"} \subseteq Range(liftFile.header)

\* what the line would append if the columns came in the opposite order
PushedInReverseOrder(line) ==
    addFromCSV(Reverse(liftFile.header), Parts(Reverse(liftFile.header), line))

\* C30: with both flag columns in the file, every line read has appended
\* exactly one entry to the test population and one to the control
\* population; the entries are the ones the opposite column order gives,
\* and for flags 0 and 1 they are opportunity AND test_flag and
\* opportunity AND NOT test_flag.
C30_PopulationFlags ==
    BothFlagColumns =>
        /\ Len(testPopulation_) = numRows_
        /\ Len(controlPopulation_) = numRows_
        /\ \A i \in 1..numRows_ :
              LET line == liftFile.lines[i]
              IN  /\ <<testPopulation_[i]>> = PushedInReverseOrder(line).test
                  /\ <<controlPopulation_[i]>> = PushedInReverseOrder(line).control
                  /\ (line.opportunity \in 0..1 /\ line.test_flag \in 0..1) =>
                        /\ testPopulation_[i] = line.opportunity * line.test_flag
                        /\ controlPopulation_[i] =
                              line.opportunity * (1 - line.test_flag)

\* opportunity comes first; a test row and a control row have been read
C30_Witness ==
    /\ liftFile.header = <<"opportunity", "test_flag">>
    /\ numRows_ = 2
    /\ liftFile.lines[1] = [opportunity |-> 1, test_flag |-> 1]
    /\ liftFile.lines[2] = [opportunity |-> 1, test_flag |-> 0]
    /\ testPopulation_ = <<1, 0>>
    /\ controlPopulation_ = <<0, 1>>

=============================================================================
